---- MODULE Spec2Model ----
(***************************************************************************)
(* A model of the aspis bottom-up solver: the term algebra of              *)
(* src/src/terms.ts, the database and stepper of src/src/datalog.ts (the   *)
(* first of the two versions held in that file, lines 1-256) and the       *)
(* search driver of src/src/do.ts.                                         *)
(***************************************************************************)
EXTENDS Integers, Sequences, FiniteSets, TLC

VARIABLES
  current,       \* do.ts:281  the Example being run: rules, conclusions, db
  workingDbs,    \* do.ts:283  stack of working databases, top first
  saturatedDbs,  \* do.ts:284  databases collected as saturated
  pc,            \* position of the driver: "loop", "done" or "crashed"
  call,          \* the last thing done: a term-algebra call or an iteration of the
                 \* driver loop, with its inputs and result
  lineage        \* the place in the search tree of every database: its path of
                 \* alternatives from the root, the terminals evaluated on it, the
                 \* identity of its four arrays and its contents when step made it

vars == <<current, workingDbs, saturatedDbs, pc, call, lineage>>

(***************************************************************************)
(* Terms (terms.ts).                                                       *)
(***************************************************************************)
const(n, a) == [type |-> "const", name |-> n, args |-> a]
int(v) == [type |-> "int", value |-> v]
string(v) == [type |-> "string", value |-> v]
triv == [type |-> "triv"]
var(n) == [type |-> "var", name |-> n]
\* a nullary constructor, as parsePattern reads a lower-case word
c(n) == const(n, <<>>)

\* the result null of match / matchFact
Null == [null |-> TRUE]
\* the outcome of a call that raised an exception
Throw == [type |-> "throw"]
\* the empty substitution {}
EmptySubst == <<>>

RECURSIVE ConcatAll(_)
ConcatAll(ss) == IF ss = <<>> THEN <<>> ELSE Head(ss) \o ConcatAll(Tail(ss))

RECURSIVE match(_, _, _)
RECURSIVE matchArgs(_, _, _, _)
\* the loop without its assignment substitution = candidate
matchArgsUnthreaded(substitution, patterns, datas, i) ==
  IF \E k \in 1..Len(patterns) : match(substitution, patterns[k], datas[k]) = Null
  THEN Null
  ELSE substitution

\* the loop of match's const case (and of matchFact): thread the substitution
matchArgs(substitution, patterns, datas, i) ==
  IF i > Len(patterns) THEN substitution
  ELSE LET candidate == match(substitution, patterns[i], datas[i])
       IN IF candidate = Null THEN Null
          ELSE matchArgs(candidate, patterns, datas, i + 1)

match(substitution, pattern, data) ==
  CASE pattern.type = "const" ->
         IF \/ data.type # "const"
            \/ pattern.name # data.name
            \/ Len(pattern.args) # Len(data.args)
         THEN Null
         ELSE matchArgs(substitution, pattern.args, data.args, 1)
    [] pattern.type \in {"int", "string"} ->
         IF pattern.type # data.type THEN Null
         ELSE IF pattern.value # data.value THEN Null
         ELSE substitution
    [] pattern.type = "triv" ->
         IF pattern.type # data.type THEN Null ELSE substitution
    [] pattern.type = "var" ->
         IF pattern.name \in DOMAIN substitution
         THEN match(substitution, substitution[pattern.name], data)
         ELSE (pattern.name :> data) @@ substitution

RECURSIVE applyLenient(_, _)
\* apply that leaves a variable the substitution does not bind in place
applyLenient(substitution, pattern) ==
  CASE pattern.type \in {"int", "string", "triv"} -> pattern
    [] pattern.type = "var" ->
         IF pattern.name \notin DOMAIN substitution THEN pattern
         ELSE substitution[pattern.name]
    [] pattern.type = "const" ->
         const(pattern.name,
               [i \in 1..Len(pattern.args) |-> applyLenient(substitution, pattern.args[i])])

RECURSIVE apply(_, _)
apply(substitution, pattern) ==
  CASE pattern.type \in {"int", "string", "triv"} -> pattern
    [] pattern.type = "var" ->
         IF pattern.name \notin DOMAIN substitution THEN Throw
         ELSE substitution[pattern.name]
    [] pattern.type = "const" ->
         LET args == [i \in 1..Len(pattern.args) |-> apply(substitution, pattern.args[i])]
         IN IF \E i \in 1..Len(args) : args[i] = Throw THEN Throw
            ELSE const(pattern.name, args)

RECURSIVE equal(_, _)
equal(t, s) ==
  CASE t.type \in {"int", "string"} -> t.type = s.type /\ t.value # s.value
    [] t.type = "triv" -> t.type = s.type
    [] t.type = "const" ->
         /\ t.type = s.type
         /\ t.name = s.name
         /\ Len(t.args) = Len(s.args)
         /\ \A i \in 1..Len(t.args) : equal(t.args[i], s.args[i])

(***************************************************************************)
(* Database (datalog.ts).                                                  *)
(***************************************************************************)
Proposition(n, a, v) == [name |-> n, args |-> a, values |-> v]
Fact(n, a, v) == [type |-> "Fact", name |-> n, args |-> a, values |-> v]
PartialRule(n, a) == [type |-> "PartialRule", name |-> n, args |-> a]
Database(f, p, u, q) == [facts |-> f, partialRules |-> p, uninteresting |-> u, queue |-> q]

\* matchFact that starts from {} instead of the substitution it is given
matchFactFresh(substitution, proposition, fact) ==
  IF \/ proposition.name # fact.name
     \/ Len(proposition.args) # Len(fact.args)
     \/ Len(proposition.values) # Len(fact.values)
  THEN Null
  ELSE LET afterArgs == matchArgs(EmptySubst, proposition.args, fact.args, 1)
       IN IF afterArgs = Null THEN Null
          ELSE matchArgs(afterArgs, proposition.values, fact.values, 1)

matchFact(substitution, proposition, fact) ==
  IF \/ proposition.name # fact.name
     \/ Len(proposition.args) # Len(fact.args)
     \/ Len(proposition.values) # Len(fact.values)
  THEN Null
  ELSE LET afterArgs == matchArgs(substitution, proposition.args, fact.args, 1)
       IN IF afterArgs = Null THEN Null
          ELSE matchArgs(afterArgs, proposition.values, fact.values, 1)

\* patterns.map((arg) => apply(substitution, arg))
applyAll(substitution, patterns) ==
  [i \in 1..Len(patterns) |-> apply(substitution, patterns[i])]
\* whether one of the calls of apply in that map raises
applyAllThrows(substitution, patterns) ==
  \E i \in 1..Len(patterns) : apply(substitution, patterns[i]) = Throw

applyProposition(substitution, proposition) ==
  IF \/ applyAllThrows(substitution, proposition.args)
     \/ applyAllThrows(substitution, proposition.values)
  THEN Throw
  ELSE Fact(proposition.name, applyAll(substitution, proposition.args),
            applyAll(substitution, proposition.values))

\* fact.xs.every((x, i) => equal(x, newXs[i])), the lengths being equal
everyEqual(xs, ys) == \A i \in 1..Len(xs) : equal(xs[i], ys[i])

\* the condition of the first loop of evaluateFactAgainstDatabase
sameKey(fact, newFact) ==
  /\ fact.name = newFact.name
  /\ Len(fact.args) = Len(newFact.args)
  /\ Len(fact.values) = Len(newFact.values)
  /\ everyEqual(fact.args, newFact.args)

\* a fact whose key is present with other values takes the stored fact's place
evaluateFactOverwrites(db, newFact) ==
  LET hits == {i \in 1..Len(db.facts) : sameKey(db.facts[i], newFact)}
      first == CHOOSE i \in hits : \A j \in hits : i <= j
  IN IF hits # {}
     THEN IF everyEqual(db.facts[first].values, newFact.values)
          THEN [type |-> "redundant"]
          ELSE [type |-> "extend",
                db |-> [db EXCEPT !.facts[first] = newFact,
                                  !.queue = Append(db.queue, newFact)]]
     ELSE [type |-> "extend",
           db |-> [db EXCEPT !.facts = Append(db.facts, newFact),
                             !.queue = Append(db.queue, newFact)]]
\* a key that is present counts as redundant whatever its values
evaluateFactKeyOnly(db, newFact) ==
  IF \E i \in 1..Len(db.facts) : sameKey(db.facts[i], newFact)
  THEN [type |-> "redundant"]
  ELSE [type |-> "extend",
        db |-> [db EXCEPT !.facts = Append(db.facts, newFact),
                          !.queue = Append(db.queue, newFact)]]

evaluateFactAgainstDatabase(db, newFact) ==
  LET hits == {i \in 1..Len(db.facts) : sameKey(db.facts[i], newFact)}
      first == CHOOSE i \in hits : \A j \in hits : i <= j
      dull == {i \in 1..Len(db.uninteresting) :
                 /\ sameKey(db.uninteresting[i], newFact)
                 /\ everyEqual(db.uninteresting[i].values, newFact.values)}
  IN IF hits # {}
     THEN IF everyEqual(db.facts[first].values, newFact.values)
          THEN [type |-> "redundant"]
          ELSE [type |-> "inconsistent"]
     ELSE IF dull # {} THEN [type |-> "redundant"]
     ELSE [type |-> "extend",
           db |-> [db EXCEPT !.facts = Append(db.facts, newFact),
                             !.queue = Append(db.queue, newFact)]]

(***************************************************************************)
(* Rules and conclusions (datalog.ts:6-18).  A conclusion of the compiler  *)
(* of part_005 is either a NewFact or a Contradiction; the conclusions of  *)
(* do.ts are all NewFact.                                                  *)
(***************************************************************************)
InternalRule(n, next, indep, sh, nw, prem) ==
  [name |-> n, nextName |-> next, independent |-> indep, shared |-> sh,
   new |-> nw, premise |-> prem]
InternalConclusion(props, ex) ==
  [type |-> "NewFact", mutuallyExclusiveConclusions |-> props, exhaustive |-> ex]
Contradiction == [type |-> "Contradiction"]

\* what step returns: a list of databases, or an exception
Returned(dbs) == [type |-> "ok", dbs |-> dbs]

\* a terminal that is a Contradiction closes the database
contradictionStep(db) == Returned(<<>>)

\* the loop of datalog.ts:108-121: each alternative's fact evaluated against db
\* (Throw for an alternative whose applyProposition raises)
terminalResults(conclusion, db, item) ==
  LET props == conclusion.mutuallyExclusiveConclusions
  IN [i \in 1..Len(props) |->
        LET fact == applyProposition(item.args, props[i])
        IN IF fact = Throw THEN Throw
           ELSE evaluateFactAgainstDatabase(db, fact)]
\* dbs filled from the last alternative to the first
extendedDbsReversed(results) ==
  LET extended == SelectSeq(results, LAMBDA r : r.type = "extend")
  IN [i \in 1..Len(extended) |-> extended[Len(extended) + 1 - i].db]
\* dbs: the databases of the alternatives that extend, in order
extendedDbs(results) ==
  LET extended == SelectSeq(results, LAMBDA r : r.type = "extend")
  IN [i \in 1..Len(extended) |-> extended[i].db]

\* the terminal case with the unchanged database pushed whatever the flags are
newFactStepOpen(conclusion, db, item) ==
  LET results == terminalResults(conclusion, db, item)
  IN IF \E i \in 1..Len(results) : results[i] = Throw THEN Throw
     ELSE Returned(Append(extendedDbs(results), db))

\* the terminal case with the test if (redundantPossibilities), as in the
\* older stepper (datalog.ts:403)
newFactStepClosed(conclusion, db, item) ==
  LET results == terminalResults(conclusion, db, item)
  IN IF \E i \in 1..Len(results) : results[i] = Throw THEN Throw
     ELSE IF \E i \in 1..Len(results) : results[i].type = "redundant"
          THEN Returned(Append(extendedDbs(results), db))
          ELSE Returned(extendedDbs(results))

\* step, terminal case of a NewFact conclusion (datalog.ts:105-125)
newFactStep(conclusion, db, item) ==
  LET results == terminalResults(conclusion, db, item)
      redundantPossibilities == \E i \in 1..Len(results) : results[i].type = "redundant"
  IN IF \E i \in 1..Len(results) : results[i] = Throw THEN Throw
     ELSE IF redundantPossibilities \/ ~conclusion.exhaustive
          THEN Returned(Append(extendedDbs(results), db))
          ELSE Returned(extendedDbs(results))

terminalStep(conclusion, db, item) ==
  IF conclusion.type = "Contradiction" THEN contradictionStep(db)
  ELSE newFactStep(conclusion, db, item)

\* obj[key] of a JavaScript object: undefined when the key is absent
Undefined == [type |-> "undefined"]
lookup(args, varName) == IF varName \in DOMAIN args THEN args[varName] ELSE Undefined

\* the join without its test of the shared variables
sharedEveryUntested(shared, itemArgs, substitution, i) == "true"

RECURSIVE sharedEvery(_, _, _, _)
\* shared.every(({varName, value}) => equal(item.args[varName], value)), which
\* stops at the first false and raises a TypeError when equal reads undefined
sharedEvery(shared, itemArgs, substitution, i) ==
  IF i > Len(shared) THEN "true"
  ELSE LET t == lookup(itemArgs, shared[i])
           s == lookup(substitution, shared[i])
       IN IF t = Undefined \/ s = Undefined THEN "throw"
          ELSE IF equal(t, s) THEN sharedEvery(shared, itemArgs, substitution, i + 1)
          ELSE "false"

Range(seq) == {seq[i] : i \in 1..Len(seq)}

\* { ...substitution } overwritten by item.args[varName] for the independent
\* variables (a variable item.args lacks is left unbound)
extendWith(substitution, independent, itemArgs) ==
  LET indep == Range(independent)
      dom == (DOMAIN substitution \ (indep \ DOMAIN itemArgs))
               \cup (indep \cap DOMAIN itemArgs)
  IN [v \in dom |-> IF v \in indep THEN itemArgs[v] ELSE substitution[v]]

nextItems(rule, args) ==
  [n \in 1..Len(rule.nextName) |-> PartialRule(rule.nextName[n], args)]

\* step, case 'Fact' (datalog.ts:129-159): the new partial rules, in order;
\* <<Throw>> stands for an iteration that raised
factCase(rules, db, item) ==
  ConcatAll([r \in 1..Len(rules) |->
    LET rule == rules[r]
        substitution == matchFact(EmptySubst, rule.premise, item)
    IN IF substitution = Null THEN <<>>
       ELSE ConcatAll([k \in 1..Len(db.partialRules) |->
              LET stored == db.partialRules[k]
                  agree == sharedEvery(rule.shared, stored.args, substitution, 1)
              IN IF stored.name # rule.name \/ agree = "false" THEN <<>>
                 ELSE IF agree = "throw" THEN <<Throw>>
                 ELSE nextItems(rule,
                        extendWith(substitution, rule.independent, stored.args))])])

\* the prefix-driven join started from {} instead of current.args
partialRuleCaseFresh(rules, db, item) ==
  ConcatAll([r \in 1..Len(rules) |->
    LET rule == rules[r]
    IN IF item.name # rule.name THEN <<>>
       ELSE ConcatAll([k \in 1..Len(db.facts) |->
              LET extendedSubstitution == matchFact(EmptySubst, rule.premise, db.facts[k])
              IN IF extendedSubstitution = Null THEN <<>>
                 ELSE nextItems(rule, extendedSubstitution)])])

\* step, case 'PartialRule' (datalog.ts:160-182)
partialRuleCase(rules, db, item) ==
  ConcatAll([r \in 1..Len(rules) |->
    LET rule == rules[r]
    IN IF item.name # rule.name THEN <<>>
       ELSE ConcatAll([k \in 1..Len(db.facts) |->
              LET fact == db.facts[k]
              IN IF fact.name = rule.premise.name
                      /\ Len(fact.args) = Len(rule.premise.args)
                 THEN LET extendedSubstitution == matchFact(item.args, rule.premise, fact)
                      IN IF extendedSubstitution = Null THEN <<>>
                         ELSE nextItems(rule, extendedSubstitution)
                 ELSE <<>>])])

\* no prefix counts as stored
alreadyStoredNever(partialRules, newItem) == FALSE
\* the test of datalog.ts:187-191: some stored item has newItem's name and every
\* binding of the stored item is equal to newItem's
alreadyStored(partialRules, newItem) ==
  \E k \in 1..Len(partialRules) :
    /\ newItem.name = partialRules[k].name
    /\ \A v \in DOMAIN partialRules[k].args :
         /\ v \in DOMAIN newItem.args
         /\ equal(newItem.args[v], partialRules[k].args[v])

\* equal(newItem.args[varName], data) reads undefined when a stored item of the
\* same name binds a variable newItem lacks
storedReadsUndefined(partialRules, newItem) ==
  \E k \in 1..Len(partialRules) :
    /\ newItem.name = partialRules[k].name
    /\ ~(DOMAIN partialRules[k].args \subseteq DOMAIN newItem.args)

RECURSIVE addNewPartialRulesStacked(_, _)
\* the loop with every new item put at the front of the queue
addNewPartialRulesStacked(db, newPartialRules) ==
  IF newPartialRules = <<>> THEN db
  ELSE LET newItem == Head(newPartialRules)
       IN IF newItem = Throw \/ db = Throw THEN Throw
          ELSE IF storedReadsUndefined(db.partialRules, newItem) THEN Throw
          ELSE IF ~alreadyStored(db.partialRules, newItem)
          THEN addNewPartialRulesStacked(
                 [db EXCEPT !.partialRules = Append(db.partialRules, newItem),
                            !.queue = <<newItem>> \o db.queue],
                 Tail(newPartialRules))
          ELSE addNewPartialRulesStacked(db, Tail(newPartialRules))

RECURSIVE addNewPartialRules(_, _)
\* the loop of datalog.ts:185-199
addNewPartialRules(db, newPartialRules) ==
  IF newPartialRules = <<>> THEN db
  ELSE LET newItem == Head(newPartialRules)
       IN IF newItem = Throw \/ db = Throw THEN Throw
          ELSE IF storedReadsUndefined(db.partialRules, newItem) THEN Throw
          ELSE IF ~alreadyStored(db.partialRules, newItem)
          THEN addNewPartialRules(
                 [db EXCEPT !.partialRules = Append(db.partialRules, newItem),
                            !.queue = Append(db.queue, newItem)],
                 Tail(newPartialRules))
          ELSE addNewPartialRules(db, Tail(newPartialRules))

\* step after its first two statements: item is the dequeued item and db holds
\* the rest of the queue (datalog.ts:104-201)
stepItem(rules, conclusions, db, item) ==
  IF item.type = "PartialRule" /\ item.name \in DOMAIN conclusions
  THEN terminalStep(conclusions[item.name], db, item)
  ELSE LET newPartialRules == IF item.type = "Fact" THEN factCase(rules, db, item)
                              ELSE partialRuleCase(rules, db, item)
           out == IF \E i \in 1..Len(newPartialRules) : newPartialRules[i] = Throw
                  THEN Throw
                  ELSE addNewPartialRules(db, newPartialRules)
       IN IF out = Throw THEN Throw ELSE Returned(<<out>>)

\* step (datalog.ts:95-202): the head of the queue is dequeued
\* step that leaves the dequeued item in the queue of its results
stepUndequeued(rules, conclusions, db) ==
  IF db.queue = <<>> THEN Throw
  ELSE stepItem(rules, conclusions, db, Head(db.queue))

\* (on an empty queue current is undefined and current.type raises a TypeError)
step(rules, conclusions, db) ==
  IF db.queue = <<>> THEN Throw
  ELSE stepItem(rules, conclusions, [db EXCEPT !.queue = Tail(db.queue)], Head(db.queue))

(***************************************************************************)
(* Programs (do.ts).  Seed facts are stored but not queued; every rule's   *)
(* seed prefix is stored and queued.                                       *)
(***************************************************************************)
Example(rules, conclusions, db) == [rules |-> rules, conclusions |-> conclusions, db |-> db]
seed(n) == PartialRule(n, EmptySubst)
X == var("X")
Y == var("Y")
Z == var("Z")

\* do.ts:47-66  path X Y :- edge X Y
aPremise ==
  <<InternalRule("a1", <<"a2">>, <<>>, <<>>, <<"X", "Y">>, Proposition("edge", <<X, Y>>, <<>>))>>
aConclusion ==
  [a2 |-> InternalConclusion(<<Proposition("path", <<X, Y>>, <<>>)>>, TRUE)]
\* do.ts:68-95  path X Z :- edge X Y, path Y Z
bPremise ==
  <<InternalRule("b1", <<"b2">>, <<>>, <<>>, <<"X", "Y">>, Proposition("edge", <<X, Y>>, <<>>)),
    InternalRule("b2", <<"b3">>, <<"X">>, <<"Y">>, <<"Z">>, Proposition("path", <<Y, Z>>, <<>>))>>
bConclusion ==
  [b3 |-> InternalConclusion(<<Proposition("path", <<X, Z>>, <<>>)>>, TRUE)]

edge(x, y) == Fact("edge", <<c(x), c(y)>>, <<>>)
path(x, y) == Fact("path", <<c(x), c(y)>>, <<>>)

\* do.ts:103-118 for a list of seed facts
edgeProgram(facts) ==
  Example(aPremise \o bPremise, aConclusion @@ bConclusion,
          Database(facts, <<seed("a1"), seed("b1")>>, <<>>, <<seed("a1"), seed("b1")>>))
\* with the seed facts edge a b, edge b c, edge c d
edgeExample == edgeProgram(<<edge("a", "b"), edge("b", "c"), edge("c", "d")>>)
\* with the seed facts of a cycle: edge a b, edge b c, edge c a
cycleExample == edgeProgram(<<edge("a", "b"), edge("b", "c"), edge("c", "a")>>)
\* with the seed facts edge a b, edge b c
shortEdgeExample == edgeProgram(<<edge("a", "b"), edge("b", "c")>>)

\* do.ts:215-274
r5Premise ==
  <<InternalRule("a1", <<"a2">>, <<>>, <<>>, <<>>, Proposition("q", <<>>, <<c("false")>>))>>
r5Conclusion ==
  [a2 |-> InternalConclusion(<<Proposition("p", <<>>, <<c("true")>>)>>, TRUE)]
r6Conclusion ==
  [b1 |-> InternalConclusion(<<Proposition("p", <<>>, <<c("false")>>)>>, FALSE)]
r7Premise ==
  <<InternalRule("c1", <<"c2">>, <<>>, <<>>, <<>>, Proposition("p", <<>>, <<c("false")>>))>>
r7Conclusion ==
  [c2 |-> InternalConclusion(<<Proposition("q", <<>>, <<c("true")>>)>>, TRUE)]
r8Conclusion ==
  [d1 |-> InternalConclusion(<<Proposition("q", <<>>, <<c("false")>>)>>, FALSE)]
pqExample ==
  Example(r5Premise \o r7Premise,
          r5Conclusion @@ r6Conclusion @@ r7Conclusion @@ r8Conclusion,
          Database(<<>>, <<seed("a1"), seed("b1"), seed("c1"), seed("d1")>>, <<>>,
                   <<seed("a1"), seed("b1"), seed("c1"), seed("d1")>>))

\* do.ts:232-238 alone: the open-world rule p = { false }
openExample ==
  Example(<<>>, r6Conclusion, Database(<<>>, <<seed("b1")>>, <<>>, <<seed("b1")>>))

\* color X = { red, blue } :- thing X, exhaustive, for thing a and thing b
thing(x) == Fact("thing", <<c(x)>>, <<>>)
color(x, v) == Fact("color", <<c(x)>>, <<c(v)>>)
colorPremise ==
  <<InternalRule("c1", <<"c2">>, <<>>, <<>>, <<"X">>, Proposition("thing", <<X>>, <<>>))>>
colorConclusion ==
  [c2 |-> InternalConclusion(<<Proposition("color", <<X>>, <<c("red")>>),
                               Proposition("color", <<X>>, <<c("blue")>>)>>, TRUE)]
choiceExample ==
  Example(colorPremise, colorConclusion,
          Database(<<thing("a"), thing("b")>>, <<seed("c1")>>, <<>>, <<seed("c1")>>))

\* the same with the constraint :- color a = C, color b = C, as compile lowers a
\* Constraint (part_005:131-140): a chain that ends in a Contradiction
sameColorPremise ==
  <<InternalRule("d1", <<"d2">>, <<>>, <<>>, <<"C">>,
                 Proposition("color", <<c("a")>>, <<var("C")>>)),
    InternalRule("d2", <<"d3">>, <<>>, <<"C">>, <<>>,
                 Proposition("color", <<c("b")>>, <<var("C")>>))>>
sameColorConclusion == [d3 |-> Contradiction]
constraintExample ==
  Example(colorPremise \o sameColorPremise, colorConclusion @@ sameColorConclusion,
          Database(<<thing("a"), thing("b")>>, <<seed("c1"), seed("d1")>>, <<>>,
                   <<seed("c1"), seed("d1")>>))

\* home celeste = uplands.  home celeste = doghouse.  (either seed first)
home(v) == Proposition("home", <<c("celeste")>>, <<c(v)>>)
homeConclusion ==
  [a1 |-> InternalConclusion(<<home("uplands")>>, TRUE),
   b1 |-> InternalConclusion(<<home("doghouse")>>, TRUE)]
homeExample(first, second) ==
  Example(<<>>, homeConclusion,
          Database(<<>>, <<seed(first), seed(second)>>, <<>>, <<seed(first), seed(second)>>))

\* do.ts:126-208
r1Premise ==
  <<InternalRule("a1", <<"a2", "a3", "a4">>, <<>>, <<>>, <<>>,
                 Proposition("p", <<>>, <<c("false")>>))>>
r1Conclusion ==
  [a2 |-> InternalConclusion(<<Proposition("a", <<>>, <<c("true")>>),
                               Proposition("a", <<>>, <<c("false")>>)>>, TRUE),
   a3 |-> InternalConclusion(<<Proposition("b", <<>>, <<c("true")>>),
                               Proposition("b", <<>>, <<c("false")>>)>>, TRUE),
   a4 |-> InternalConclusion(<<Proposition("c", <<>>, <<c("true")>>),
                               Proposition("c", <<>>, <<c("false")>>)>>, TRUE)]
r2Conclusion == r6Conclusion
r3Premise == r7Premise
r3Conclusion == r7Conclusion
r4Premise ==
  <<InternalRule("d1", <<"d2">>, <<>>, <<>>, <<>>, Proposition("q", <<>>, <<c("true")>>))>>
r4Conclusion ==
  [d2 |-> InternalConclusion(<<Proposition("a", <<>>, <<c("true")>>)>>, TRUE)]
mutexExample ==
  Example(r1Premise \o r3Premise \o r4Premise,
          r1Conclusion @@ r2Conclusion @@ r3Conclusion @@ r4Conclusion,
          Database(<<>>, <<seed("a1"), seed("b1"), seed("c1"), seed("d1")>>, <<>>,
                   <<seed("a1"), seed("b1"), seed("c1"), seed("d1")>>))

\* programs over int and string data
n(v) == Fact("n", <<int(v)>>, <<>>)
countPremise ==
  <<InternalRule("a1", <<"a2">>, <<>>, <<>>, <<"X">>, Proposition("n", <<X>>, <<>>))>>
countConclusion ==
  [a2 |-> InternalConclusion(<<Proposition("q", <<X>>, <<>>)>>, TRUE)]
\* n 1.  n 2.  q X :- n X.
countExample ==
  Example(countPremise, countConclusion,
          Database(<<n(1), n(2)>>, <<seed("a1")>>, <<>>, <<seed("a1")>>))
\* q X :- n X.  n 1 :- .  n 2 :- .  name "x" :- .  name "x" :- .
numberConclusion ==
  [b1 |-> InternalConclusion(<<Proposition("n", <<int(1)>>, <<>>)>>, TRUE),
   c1 |-> InternalConclusion(<<Proposition("n", <<int(2)>>, <<>>)>>, TRUE),
   d1 |-> InternalConclusion(<<Proposition("name", <<string("x")>>, <<>>)>>, TRUE),
   e1 |-> InternalConclusion(<<Proposition("name", <<string("x")>>, <<>>)>>, TRUE)]
numberSeeds == <<seed("a1"), seed("b1"), seed("c1"), seed("d1"), seed("e1")>>
numberExample ==
  Example(countPremise, countConclusion @@ numberConclusion,
          Database(<<>>, numberSeeds, <<>>, numberSeeds))

\* a rule whose head uses a variable no premise binds:  r Y :- .
unboundExample ==
  Example(<<>>, [a1 |-> InternalConclusion(<<Proposition("r", <<Y>>, <<>>)>>, TRUE)],
          Database(<<>>, <<seed("a1")>>, <<>>, <<seed("a1")>>))

\* n 1 :- .  q X :- n X.  (the premise-free rule written first)
derivedSeeds == <<seed("b1"), seed("a1")>>
derivedExample ==
  Example(countPremise, countConclusion @@ [b1 |-> numberConclusion.b1],
          Database(<<>>, derivedSeeds, <<>>, derivedSeeds))

\* p = true :- .  p = { false } :- .  (the second rule open-world)
clashExample ==
  Example(<<>>, [a1 |-> r5Conclusion.a2, b1 |-> r6Conclusion.b1],
          Database(<<>>, <<seed("a1"), seed("b1")>>, <<>>, <<seed("a1"), seed("b1")>>))

\* home celeste = uplands.  home celeste = doghouse.  p = true.
lateSeedExample ==
  Example(<<>>, homeConclusion @@ [c1 |-> r5Conclusion.a2],
          Database(<<>>, <<seed("a1"), seed("b1"), seed("c1")>>, <<>>,
                   <<seed("a1"), seed("b1"), seed("c1")>>))

\* p = { false } :- .  p = { false } :- .  (both open-world, as the first and
\* the fifth rule of aspExample1, part_005:202 and 220)
twoOpenExample ==
  Example(<<>>, [a1 |-> r6Conclusion.b1, b1 |-> r6Conclusion.b1],
          Database(<<>>, <<seed("a1"), seed("b1")>>, <<>>, <<seed("a1"), seed("b1")>>))

\* the programs whose data are constants only
\* n 1 :- .  m 2 :- .  r X :- n X, m X.  (a join on the int variable X, compiled
\* as the b1/b2/b3 chain of do.ts:72-87: a1 binds X, a2 shares it)
joinPremise ==
  <<InternalRule("a1", <<"a2">>, <<>>, <<>>, <<"X">>, Proposition("n", <<X>>, <<>>)),
    InternalRule("a2", <<"a3">>, <<>>, <<"X">>, <<>>, Proposition("m", <<X>>, <<>>))>>
joinConclusion ==
  [a3 |-> InternalConclusion(<<Proposition("r", <<X>>, <<>>)>>, TRUE),
   b1 |-> InternalConclusion(<<Proposition("n", <<int(1)>>, <<>>)>>, TRUE),
   c1 |-> InternalConclusion(<<Proposition("m", <<int(2)>>, <<>>)>>, TRUE)]
joinSeeds == <<seed("a1"), seed("b1"), seed("c1")>>
joinExample ==
  Example(joinPremise, joinConclusion, Database(<<>>, joinSeeds, <<>>, joinSeeds))

\* p = { false } :- .  n 1 :- .  q X :- n X.  n X :- q X.  (least model n 1, q 1,
\* with or without p = false)
loopPremise ==
  <<InternalRule("a1", <<"a2">>, <<>>, <<>>, <<"X">>, Proposition("n", <<X>>, <<>>)),
    InternalRule("c1", <<"c2">>, <<>>, <<>>, <<"X">>, Proposition("q", <<X>>, <<>>))>>
loopConclusion ==
  [a2 |-> InternalConclusion(<<Proposition("q", <<X>>, <<>>)>>, TRUE),
   b1 |-> InternalConclusion(<<Proposition("n", <<int(1)>>, <<>>)>>, TRUE),
   c2 |-> InternalConclusion(<<Proposition("n", <<X>>, <<>>)>>, TRUE),
   d1 |-> r6Conclusion.b1]
loopSeeds == <<seed("d1"), seed("a1"), seed("b1"), seed("c1")>>
loopExample ==
  Example(loopPremise, loopConclusion, Database(<<>>, loopSeeds, <<>>, loopSeeds))

ConstPrograms ==
  {edgeExample, pqExample, mutexExample, openExample, choiceExample, constraintExample,
   homeExample("a1", "b1"), homeExample("b1", "a1"), clashExample, lateSeedExample,
   twoOpenExample, cycleExample}
Programs ==
  ConstPrograms \cup {countExample, numberExample, unboundExample, derivedExample,
                     joinExample, loopExample}

(***************************************************************************)
(* The driver (do.ts:281-315), one action per branch of the loop body.     *)
(***************************************************************************)
NoCall == [fn |-> "none"]

\* the arrays of a Database object (datalog.ts:35-40)
Fields == {"facts", "partialRules", "uninteresting", "queue"}
\* the identity of an array: the path of the database it was made for and its
\* length when made (facts and partialRules only grow along a path, and a
\* queue is never held by two objects)
arrayOf(madeOn, db) == [f \in Fields |-> [path |-> madeOn, length |-> Len(db[f])]]

\* the root of the search tree: no alternative taken, no terminal evaluated,
\* four arrays of its own
rootLineage(program) ==
  [working |-> <<[path |-> <<>>, fired |-> [t \in DOMAIN program.conclusions |-> 0],
                 refs |-> arrayOf(<<>>, program.db), born |-> program.db]>>,
   saturated |-> <<>>,
   pruned |-> <<>>]

Init ==
  /\ current \in Programs
  /\ workingDbs = <<current.db>>
  /\ saturatedDbs = <<>>
  /\ pc = "loop"
  /\ call = NoCall
  /\ lineage = rootLineage(current)

\* the fact list a run may reach before it is cut off
MaxFacts == 20
\* do.ts:289  while (workingDbs.length > 0), for runs within MaxFacts
Running ==
  /\ pc = "loop"
  /\ Len(workingDbs) > 0
  /\ Len(workingDbs[1].facts) <= MaxFacts
\* do.ts:299  const newDbs = step(rules, conclusions, workingDbs[0])
newDbs == step(current.rules, current.conclusions, workingDbs[1])
\* the test of the queue left out: every iteration steps
queueEmptyNever(db) == FALSE
\* do.ts:293  the test that decides between collecting and stepping
queueEmpty(db) == Len(db.queue) = 0
\* an iteration that called step on the item at index of the top database's
\* queue: the stack and the saturated list before it, what step returned, the
\* arrays of the database given to step and what it holds afterwards
\* the arrays of the old version's loop, where new items are pushed onto
\* db.partialRules itself (datalog.ts:475-476)
newArraysPushed(input, out) ==
  {"queue"} \cup {f \in {"facts"} : out[f] # input[f]}

\* the arrays of a database returned by step that are new objects: the queue
\* (rest, datalog.ts:101-102), and facts and partialRules wherever step added
\* to them, which it does by assigning a copy (datalog.ts:194-195, 243-244)
newArrays(input, out) ==
  {"queue"} \cup {f \in {"facts", "partialRules"} : out[f] # input[f]}
\* the arrays of the input that hold other contents after step and are no new
\* objects: they were written in place
writtenInPlace(input, out) ==
  {f \in Fields \ {"queue"} : out[f] # input[f]} \ newArrays(input, out)
\* what an object holding the arrays refs reads in its fields after step ran
\* on the top database and returned dbs: an array it shares with the top
\* database shows what step wrote into it
aliased(db, refs, dbs) ==
  [f \in Fields |->
     LET writers == {j \in 1..Len(dbs) :
                       /\ f \in writtenInPlace(workingDbs[1], dbs[j])
                       /\ refs[f] = lineage.working[1].refs[f]}
     IN IF writers = {} THEN db[f] ELSE dbs[CHOOSE j \in writers : TRUE][f]]
\* the databases below the top and the collected ones, as they read after step
othersAfter(dbs) ==
  [i \in 1..(Len(workingDbs) - 1) |->
     aliased(workingDbs[i + 1], lineage.working[i + 1].refs, dbs)]
collectedAfter(dbs) ==
  [i \in 1..Len(saturatedDbs) |-> aliased(saturatedDbs[i], lineage.saturated[i].refs, dbs)]

stepCall(index, out) ==
  [fn |-> "step", index |-> index, stack |-> workingDbs, saturated |-> saturatedDbs,
   result |-> out, refs |-> lineage.working[1].refs,
   inputAfter |-> IF out = Throw THEN workingDbs[1]
                  ELSE aliased(workingDbs[1], lineage.working[1].refs, out.dbs)]
\* an iteration that collected the top database
popCall == [fn |-> "pop", stack |-> workingDbs, saturated |-> saturatedDbs]

\* the path of the top database once step has dequeued item: a terminal is
\* evaluated once more (datalog.ts:104)
evaluated(place, item) ==
  IF item.type = "PartialRule" /\ item.name \in DOMAIN current.conclusions
  THEN [place EXCEPT !.fired[item.name] = @ + 1]
  ELSE place
\* the successors b1..bk of a step take the place of the stepped database:
\* a single successor continues its path, k >= 2 successors branch it, and
\* with none the path ends pruned (do.ts:300-313)
lineageAfter(index, dbs) ==
  LET place == evaluated(lineage.working[1], workingDbs[1].queue[index])
      k == Len(dbs)
      pathOf(j) == IF k = 1 THEN place.path ELSE Append(place.path, j)
      successors ==
        [j \in 1..k |->
           [path |-> pathOf(j),
            fired |-> place.fired,
            refs |-> [f \in Fields |->
                       IF f \in newArrays(workingDbs[1], dbs[j])
                       THEN arrayOf(pathOf(j), dbs[j])[f]
                       ELSE place.refs[f]],
            born |-> dbs[j]]]
  IN [working |-> successors \o Tail(lineage.working),
      saturated |-> lineage.saturated,
      pruned |-> IF k = 0 THEN Append(lineage.pruned, place) ELSE lineage.pruned]
\* the path of a database whose step raised ends there (with nothing dequeued
\* when the queue was empty)
lineageThrown(index) ==
  IF index \notin 1..Len(workingDbs[1].queue) THEN lineage
  ELSE [lineage EXCEPT !.working[1] = evaluated(@, workingDbs[1].queue[index])]
\* do.ts:295-297
lineagePopped ==
  [lineage EXCEPT !.working = Tail(@),
                  !.saturated = Append(@, lineage.working[1])]

\* do.ts:293-297
Saturated ==
  /\ Running
  /\ queueEmpty(workingDbs[1])
  /\ saturatedDbs' = Append(saturatedDbs, workingDbs[1])
  /\ workingDbs' = Tail(workingDbs)
  /\ call' = popCall
  /\ lineage' = lineagePopped
  /\ UNCHANGED <<current, pc>>

\* do.ts:299 when step raises: the exception ends the program
StepThrows ==
  /\ Running
  /\ ~queueEmpty(workingDbs[1])
  /\ \E out \in {newDbs} :
       /\ out = Throw
       /\ pc' = "crashed"
       /\ call' = stepCall(1, out)
       /\ lineage' = lineageThrown(1)
       /\ UNCHANGED <<current, workingDbs, saturatedDbs>>

\* the failed database collected as if it were saturated
StepFailedCollects ==
  /\ Running
  /\ ~queueEmpty(workingDbs[1])
  /\ newDbs # Throw
  /\ Len(newDbs.dbs) = 0
  /\ workingDbs' = Tail(workingDbs)
  /\ saturatedDbs' = Append(saturatedDbs, workingDbs[1])
  /\ call' = stepCall(1, newDbs)
  /\ lineage' = lineagePopped
  /\ UNCHANGED <<current, pc>>

\* a failed database that takes the databases below it along
StepFailedAborts ==
  /\ Running
  /\ ~queueEmpty(workingDbs[1])
  /\ newDbs # Throw
  /\ Len(newDbs.dbs) = 0
  /\ workingDbs' = <<>>
  /\ saturatedDbs' = saturatedDbs
  /\ call' = stepCall(1, newDbs)
  /\ lineage' = [lineageAfter(1, newDbs.dbs) EXCEPT !.working = <<>>]
  /\ UNCHANGED <<current, pc>>

\* do.ts:300-302
StepFailed ==
  /\ Running
  /\ ~queueEmpty(workingDbs[1])
  /\ \E out \in {newDbs} :
       /\ out # Throw /\ Len(out.dbs) = 0
       /\ workingDbs' = othersAfter(out.dbs)
       /\ saturatedDbs' = collectedAfter(out.dbs)
       /\ call' = stepCall(1, out)
       /\ lineage' = lineageAfter(1, out.dbs)
       /\ UNCHANGED <<current, pc>>

Reverse(seq) == [i \in 1..Len(seq) |-> seq[Len(seq) + 1 - i]]
\* the successors put on the stack last alternative first
StepMultipleReversed ==
  /\ Running
  /\ ~queueEmpty(workingDbs[1])
  /\ newDbs # Throw
  /\ Len(newDbs.dbs) > 1
  /\ workingDbs' = Reverse(newDbs.dbs) \o othersAfter(newDbs.dbs)
  /\ saturatedDbs' = collectedAfter(newDbs.dbs)
  /\ call' = stepCall(1, newDbs)
  /\ lineage' = [lineageAfter(1, newDbs.dbs) EXCEPT
                   !.working = Reverse(SubSeq(@, 1, Len(newDbs.dbs))) \o Tail(lineage.working)]
  /\ UNCHANGED <<current, pc>>

\* do.ts:303-310
StepMultiple ==
  /\ Running
  /\ ~queueEmpty(workingDbs[1])
  /\ \E out \in {newDbs} :
       /\ out # Throw /\ Len(out.dbs) > 1
       /\ workingDbs' = out.dbs \o othersAfter(out.dbs)
       /\ saturatedDbs' = collectedAfter(out.dbs)
       /\ call' = stepCall(1, out)
       /\ lineage' = lineageAfter(1, out.dbs)
       /\ UNCHANGED <<current, pc>>

\* do.ts:311-313
StepSingle ==
  /\ Running
  /\ ~queueEmpty(workingDbs[1])
  /\ \E out \in {newDbs} :
       /\ out # Throw /\ Len(out.dbs) = 1
       /\ workingDbs' = <<out.dbs[1]>> \o othersAfter(out.dbs)
       /\ saturatedDbs' = collectedAfter(out.dbs)
       /\ call' = stepCall(1, out)
       /\ lineage' = lineageAfter(1, out.dbs)
       /\ UNCHANGED <<current, pc>>

\* do.ts:289, 317-321: the loop ends when no working database is left
Finish ==
  /\ pc = "loop"
  /\ Len(workingDbs) = 0
  /\ pc' = "done"
  /\ UNCHANGED <<current, workingDbs, saturatedDbs, call, lineage>>

Next ==
  \/ Saturated
  \/ StepThrows
  \/ StepFailed
  \/ StepMultiple
  \/ StepSingle
  \/ Finish

Spec == Init /\ [][Next]_vars

\* the condition under which the loop of do.ts:289-315 has a next iteration or
\* ends: the state predicate that ENABLED <<Next>>_vars comes to
canRun == pc = "loop" /\ (Len(workingDbs) = 0 \/ Running)
\* The loop of do.ts is sequential code: an iteration that can run does run.
\* This is weak fairness of Next; for the iterations that call step it is
\* written out, []<>~ENABLED <<Next>>_vars \/ []<><<Next>>_vars, with canRun for
\* the enabling condition.
SpecFair ==
  /\ Init /\ [][Next]_vars
  /\ WF_vars(Saturated) /\ WF_vars(Finish)
  /\ ([]<>~canRun \/ []<><<Next>>_vars)

\* the facts of a database, as a set
factSet(db) == Range(db.facts)
\* the fact sets of the saturated databases
models == {factSet(saturatedDbs[i]) : i \in 1..Len(saturatedDbs)}

\* every database the driver holds: the working stack and the saturated list
reached == Range(workingDbs) \cup Range(saturatedDbs)

\* the FIFO driver loop run to its end from a stack and a saturated list
\* (do.ts:289-315): the saturated list, or Throw
RECURSIVE runDriver(_, _, _)
runDriver(program, working, saturated) ==
  IF Len(working) = 0 THEN saturated
  ELSE IF Len(working[1].queue) = 0
       THEN runDriver(program, Tail(working), Append(saturated, working[1]))
       ELSE LET out == step(program.rules, program.conclusions, working[1])
            IN IF out = Throw THEN Throw
               ELSE runDriver(program, out.dbs \o Tail(working), saturated)

(***************************************************************************)
(* The driver with a stepper that may dequeue any queued item, not only    *)
(* the head (the permutation of the internal queue choice).                *)
(***************************************************************************)
RemoveAt(seq, i) == SubSeq(seq, 1, i - 1) \o SubSeq(seq, i + 1, Len(seq))
stepAny(rules, conclusions, db, i) ==
  stepItem(rules, conclusions, [db EXCEPT !.queue = RemoveAt(db.queue, i)], db.queue[i])

AnyStepThrows ==
  /\ Running
  /\ \E i \in 1..Len(workingDbs[1].queue) :
       /\ stepAny(current.rules, current.conclusions, workingDbs[1], i) = Throw
       /\ call' = stepCall(i, Throw)
       /\ lineage' = lineageThrown(i)
  /\ pc' = "crashed"
  /\ UNCHANGED <<current, workingDbs, saturatedDbs>>

AnyStep ==
  /\ Running
  /\ \E i \in 1..Len(workingDbs[1].queue) :
       LET out == stepAny(current.rules, current.conclusions, workingDbs[1], i)
       IN /\ out # Throw
          /\ workingDbs' = out.dbs \o othersAfter(out.dbs)
          /\ saturatedDbs' = collectedAfter(out.dbs)
          /\ call' = stepCall(i, out)
          /\ lineage' = lineageAfter(i, out.dbs)
  /\ UNCHANGED <<current, pc>>

NextAnyOrder ==
  \/ Saturated
  \/ AnyStepThrows
  \/ AnyStep
  \/ Finish

\* mutexExample is left out and edgeExample is cut to two edges: their dequeue
\* orders are too many to enumerate
AnyOrderPrograms == (Programs \ {mutexExample, edgeExample, cycleExample, loopExample}) \cup {shortEdgeExample}
InitAnyOrder ==
  /\ current \in AnyOrderPrograms
  /\ workingDbs = <<current.db>>
  /\ saturatedDbs = <<>>
  /\ pc = "loop"
  /\ call = NoCall
  /\ lineage = rootLineage(current)
SpecAnyOrder == InitAnyOrder /\ [][NextAnyOrder]_vars

(***************************************************************************)
(* Calls of the term algebra on inputs drawn from bounded sets.            *)
(***************************************************************************)
MaxInt == 2
Atoms == {c("a"), c("b"), string("x"), triv} \cup {int(v) : v \in 1..MaxInt}
Datas ==
  Atoms \cup {const("f", <<d>>) : d \in Atoms}
        \cup {const("g", <<d, e>>) : d, e \in Atoms}
PatternAtoms == Atoms \cup {X, Y}
Patterns ==
  PatternAtoms \cup {const("f", <<p>>) : p \in PatternAtoms}
               \cup {const("g", <<p, q>>) : p, q \in PatternAtoms}
Bindings == {c("a"), int(1), string("x"), const("f", <<c("b")>>)}
Substitutions ==
  {EmptySubst} \cup {("X" :> d) : d \in Bindings} \cup {("Y" :> d) : d \in Bindings}
               \cup {("X" :> d) @@ ("Y" :> e) : d, e \in Bindings}

InitTerms ==
  /\ current = openExample
  /\ workingDbs = <<current.db>>
  /\ saturatedDbs = <<>>
  /\ pc = "loop"
  /\ call = NoCall
  /\ lineage = rootLineage(current)

\* one call per behaviour
CallMatch ==
  /\ call = NoCall
  /\ \E s \in Substitutions, p \in Patterns, d \in Datas :
       call' = [fn |-> "match", substitution |-> s, pattern |-> p, data |-> d,
                result |-> match(s, p, d)]
  /\ UNCHANGED <<current, workingDbs, saturatedDbs, pc, lineage>>

\* one call of equal on two ground terms
CallEqual ==
  /\ call = NoCall
  /\ \E t \in Datas, u \in Datas :
       call' = [fn |-> "equal", t |-> t, s |-> u, result |-> equal(t, u)]
  /\ UNCHANGED <<current, workingDbs, saturatedDbs, pc, lineage>>

\* propositions and facts of at most MaxArgs arguments and at most one value
MaxArgs == 2
ArgPatterns == {X, Y, c("a")}
ArgDatas == {c("a"), c("b"), int(1)}
ListsOf(S) == UNION {[1..k -> S] : k \in 0..MaxArgs}
Propositions ==
  {Proposition("a", a, v) :
     a \in ListsOf(ArgPatterns), v \in {<<>>, <<X>>, <<c("a")>>}}
Facts ==
  {Fact(r, a, v) :
     r \in {"a", "b"}, a \in ListsOf(ArgDatas), v \in {<<>>, <<c("a")>>, <<c("b")>>}}

\* one call of matchFact
CallMatchFact ==
  /\ call = NoCall
  /\ \E sub \in Substitutions, p \in Propositions, f \in Facts :
       call' = [fn |-> "matchFact", substitution |-> sub, proposition |-> p, fact |-> f,
                result |-> matchFact(sub, p, f)]
  /\ UNCHANGED <<current, workingDbs, saturatedDbs, pc, lineage>>

\* one call of apply
CallApply ==
  /\ call = NoCall
  /\ \E s \in Substitutions, p \in Patterns :
       call' = [fn |-> "apply", substitution |-> s, pattern |-> p, result |-> apply(s, p)]
  /\ UNCHANGED <<current, workingDbs, saturatedDbs, pc, lineage>>

\* a database whose queue holds one prefix, the terminal t with substitution s
terminalDb(s) ==
  Database(<<>>, <<PartialRule("t", s)>>, <<>>, <<PartialRule("t", s)>>)
\* one call of step on the terminal prefix of a rule with head p
CallStepTerminal ==
  /\ call = NoCall
  /\ \E s \in Substitutions, p \in Propositions :
       call' = [fn |-> "terminal", substitution |-> s, proposition |-> p,
                result |-> step(<<>>, [t |-> InternalConclusion(<<p>>, TRUE)],
                                terminalDb(s))]
  /\ UNCHANGED <<current, workingDbs, saturatedDbs, pc, lineage>>

\* the fact lists of the databases given to an insertion
StoredFacts == {<<>>, <<Fact("a", <<c("b")>>, <<c("a")>>)>>}
\* a ground fact read as the head of a rule
asProposition(fact) == Proposition(fact.name, fact.args, fact.values)
\* one insertion into a database with one uninteresting fact: the call of
\* evaluateFactAgainstDatabase, and the step on the terminal prefix of the
\* closed rule with that head, which makes the same call
CallInsert ==
  /\ call = NoCall
  /\ \E stored \in StoredFacts, dull \in Facts, fact \in Facts :
       LET db == Database(stored, <<seed("t")>>, <<dull>>, <<>>)
       IN call' = [fn |-> "insert", db |-> db, fact |-> fact,
                   result |-> evaluateFactAgainstDatabase(db, fact),
                   stepped |-> step(<<>>,
                                    [t |-> InternalConclusion(<<asProposition(fact)>>, TRUE)],
                                    [db EXCEPT !.queue = <<seed("t")>>])]
  /\ UNCHANGED <<current, workingDbs, saturatedDbs, pc, lineage>>

\* the Inequality premise of a rule position (part_005:44-46)
Inequality(a, b) == [type |-> "Inequality", a |-> a, b |-> b]
\* step on a prefix whose position has an Inequality premise: both sides are
\* grounded by the prefix's substitution and compared with equal; the
\* substitution goes on unchanged under every successor name when they differ;
\* <<Throw>> stands for a call of apply that raised
inequalityCase(next, premise, item) ==
  LET a == apply(item.args, premise.a)
      b == apply(item.args, premise.b)
  IN IF a = Throw \/ b = Throw THEN <<Throw>>
     ELSE IF equal(a, b) THEN <<>>
     ELSE [k \in 1..Len(next) |-> PartialRule(next[k], item.args)]
\* the two sides of the inequalities given to the stepper
InequalityTerms == PatternAtoms \cup {const("f", <<p>>) : p \in PatternAtoms}
\* one step on a prefix of a position with an Inequality premise
CallInequality ==
  /\ call = NoCall
  /\ \E s \in Substitutions, a \in InequalityTerms, b \in InequalityTerms,
        next \in {<<"r1">>, <<"r1", "q1">>} :
       call' = [fn |-> "inequality", substitution |-> s, a |-> a, b |-> b, next |-> next,
                result |-> inequalityCase(next, Inequality(a, b), PartialRule("r0", s))]
  /\ UNCHANGED <<current, workingDbs, saturatedDbs, pc, lineage>>

\* a Proposition premise of a declaration: the value is its last argument
\* (part_005:40-42)
prop(name, args) == [type |-> "Proposition", name |-> name, args |-> args]
RECURSIVE freeVarsAccum(_, _)
RECURSIVE freeVarsFrom(_, _, _)
\* freeVarsAccum (terms.ts:191-206): the variable names of p are added to s in
\* their order of occurrence; s is a Set, modelled by the list of its members
\* in insertion order
freeVarsAccum(s, p) ==
  CASE p.type = "var" -> IF p.name \in Range(s) THEN s ELSE Append(s, p.name)
    [] p.type = "const" -> freeVarsFrom(s, p.args, 1)
    [] OTHER -> s
\* the loops over the arguments in freeVarsAccum and freeVars
freeVarsFrom(s, patterns, i) ==
  IF i > Len(patterns) THEN s
  ELSE freeVarsFrom(freeVarsAccum(s, patterns[i]), patterns, i + 1)
\* the variables of a premise in the order compilePremises meets them
premiseVars(premise) ==
  IF premise.type = "Inequality" THEN freeVarsFrom(<<>>, <<premise.a, premise.b>>, 1)
  ELSE freeVarsFrom(<<>>, premise.args, 1)
\* every variable of a Proposition premise is shared, known or not
sharedAll(fv, knownFreeVars) == fv
\* the shared list of a Proposition premise: its variables that are already
\* known, in order (part_005:92-99)
sharedKnown(fv, knownFreeVars) == SelectSeq(fv, LAMBDA v : v \in knownFreeVars)
RECURSIVE compileRules(_, _, _, _)
\* the premises.map of compilePremises (part_005:72-103) from index i on, with
\* the variables known so far; thrown marks the Error of an inequality that
\* uses a variable before it is known
compileRules(rule, premises, i, knownFreeVars) ==
  IF i = Len(premises)
  THEN [thrown |-> FALSE, rules |-> <<>>, boundVars |-> knownFreeVars]
  ELSE LET premise == premises[i + 1]
           fv == premiseVars(premise)
           thisPartial == rule \o ToString(i)
           nextPartial == rule \o ToString(i + 1)
       IN IF premise.type = "Inequality"
          THEN IF \E v \in Range(fv) : v \notin knownFreeVars
               THEN [thrown |-> TRUE, rules |-> <<>>, boundVars |-> knownFreeVars]
               ELSE LET rest == compileRules(rule, premises, i + 1, knownFreeVars)
                    IN [rest EXCEPT !.rules =
                          <<<<thisPartial,
                              [next |-> <<nextPartial>>, shared |-> fv,
                               premise |-> premise]>>>> \o @]
          ELSE LET rest == compileRules(rule, premises, i + 1,
                                        knownFreeVars \cup Range(fv))
               IN [rest EXCEPT !.rules =
                     <<<<thisPartial,
                         [next |-> <<nextPartial>>,
                          shared |-> sharedKnown(fv, knownFreeVars),
                          premise |-> premise]>>>> \o @]
\* compilePremises (part_005:66-111)
compilePremises(rule, premises) ==
  LET compiled == compileRules(rule, premises, 0, {})
  IN IF compiled.thrown THEN Throw
     ELSE [seed |-> rule \o "0",
           rules |-> compiled.rules,
           conclusion |-> rule \o ToString(Len(premises)),
           boundVars |-> compiled.boundVars]
\* the longest premise list given to the compiler
MaxPremises == 3
\* the premises the declarations are built from
Premises ==
  {prop("e", <<X, Y, triv>>), prop("e", <<Y, Z, triv>>), prop("n", <<X, triv>>),
   prop("v", <<c("a"), Z>>), prop("g", <<const("f", <<X, Y>>), X>>),
   Inequality(X, Y), Inequality(Z, c("a")), Inequality(const("f", <<Y>>), Y)}
\* the premise lists of at most the given length
PremiseLists(len) == UNION {[1..k -> Premises] : k \in 0..len}
\* one call of compilePremises
CallCompilePremises ==
  /\ call = NoCall
  /\ \E rule \in {"a", "b"}, premises \in PremiseLists(MaxPremises) :
       call' = [fn |-> "compilePremises", rule |-> rule, premises |-> premises,
                result |-> compilePremises(rule, premises)]
  /\ UNCHANGED <<current, workingDbs, saturatedDbs, pc, lineage>>

\* the head of a rule (part_005:52-64)
conc(name, args, values) ==
  [name |-> name, args |-> args, values |-> values, exhaustive |-> TRUE]
\* the two kinds of declaration with premises (syntax.ts:30-32)
Constraint(premises) == [type |-> "Constraint", premises |-> premises]
Rule(premises, conclusion) ==
  [type |-> "Rule", premises |-> premises, conclusion |-> conclusion]
\* one error message per variable of fv, in order, that is not known
unknownErrors(fv, knownFreeVars, before, after) ==
  LET unknown == SelectSeq(fv, LAMBDA v : v \notin knownFreeVars)
  IN [k \in 1..Len(unknown) |-> before \o unknown[k] \o after]
RECURSIVE checkPremisesFrom(_, _, _, _)
\* the loop of checkPremises (syntax.ts:37-70) from premise i on
checkPremisesFrom(premises, i, knownFreeVars, errors) ==
  IF i > Len(premises) THEN [fv |-> knownFreeVars, errors |-> errors]
  ELSE LET premise == premises[i]
       IN CASE premise.type = "Inequality" ->
                 checkPremisesFrom(premises, i + 1, knownFreeVars,
                   errors \o unknownErrors(premiseVars(premise), knownFreeVars,
                               "Variable '",
                               "' not defined before being used in an inequality."))
            [] premise.type = "Equality" ->
                 LET fvA == freeVarsAccum(<<>>, premise.a)
                     fvB == freeVarsAccum(<<>>, premise.b)
                     unknown == SelectSeq(fvA, LAMBDA v : v \notin knownFreeVars)
                 IN checkPremisesFrom(premises, i + 1, knownFreeVars \cup Range(fvB),
                      errors \o [k \in 1..Len(unknown) |->
                        "The left side of an equality premise must include only previously ground variables"])
            [] OTHER ->
                 checkPremisesFrom(premises, i + 1,
                   knownFreeVars \cup Range(premiseVars(premise)), errors)
\* checkPremises (syntax.ts:34-73)
checkPremises(premises) == checkPremisesFrom(premises, 1, {}, <<>>)
\* the check of the premises alone, the head left unexamined
checkDeclPremisesOnly(decl) == checkPremises(decl.premises).errors
\* checkDecl (syntax.ts:75-90)
checkDecl(decl) ==
  LET checked == checkPremises(decl.premises)
  IN IF decl.type = "Rule"
     THEN checked.errors \o
          unknownErrors(freeVarsFrom(<<>>, decl.conclusion.args \o decl.conclusion.values, 1),
                        checked.fv, "Variable '",
                        "' used in head of rule but not defined in a premise.")
     ELSE checked.errors
\* compile on one declaration that has premises (part_005:131-165): Throw when
\* compilePremises throws or the head uses a variable outside boundVars,
\* otherwise the positions and the terminal the declaration adds to the program
compileDecl(declName, decl) ==
  LET compiled == compilePremises(declName, decl.premises)
  IN IF compiled = Throw THEN Throw
     ELSE IF decl.type = "Constraint"
     THEN [seed |-> compiled.seed, rules |-> compiled.rules,
           conclusionName |-> compiled.conclusion,
           conclusion |-> [type |-> "Contradiction"]]
     ELSE IF \E v \in Range(freeVarsFrom(<<>>, decl.conclusion.args \o decl.conclusion.values, 1)) :
               v \notin compiled.boundVars
     THEN Throw
     ELSE [seed |-> compiled.seed, rules |-> compiled.rules,
           conclusionName |-> compiled.conclusion,
           conclusion |-> [type |-> "NewFact", name |-> decl.conclusion.name,
                           args |-> decl.conclusion.args,
                           exhaustive |-> decl.conclusion.exhaustive,
                           values |-> decl.conclusion.values]]
RECURSIVE runChain(_, _, _, _)
\* the steps on one prefix from position i (counted from 1) to the terminal:
\* a Proposition premise is matched against its instance under the valuation
\* and extends the substitution, an Inequality premise passes the substitution
\* on or stops the prefix, and the terminal applies the head of a rule.  The
\* result is the applied head, Throw, or [type |-> "stopped"].
runChain(program, i, substitution, valuation) ==
  IF i > Len(program.rules)
  THEN IF program.conclusion.type = "Contradiction" THEN [type |-> "stopped"]
       ELSE applyProposition(substitution, program.conclusion)
  ELSE LET premise == program.rules[i][2].premise
       IN IF premise.type = "Inequality"
          THEN LET successors == inequalityCase(program.rules[i][2].next, premise,
                                                PartialRule(program.rules[i][1], substitution))
               IN IF successors = <<Throw>> THEN Throw
                  ELSE IF successors = <<>> THEN [type |-> "stopped"]
                  ELSE runChain(program, i + 1, successors[1].args, valuation)
          ELSE LET extended == matchArgs(substitution, premise.args,
                                         applyAll(valuation, premise.args), 1)
               IN IF extended = Null THEN [type |-> "stopped"]
                  ELSE runChain(program, i + 1, extended, valuation)
\* the heads of the rules given to the compiler
Conclusions ==
  {conc("r", <<X>>, <<triv>>), conc("r", <<Y, c("a")>>, <<Z>>),
   conc("r", <<>>, <<const("f", <<X, Z>>)>>)}
\* the declarations given to the compiler
Declarations(len) ==
  {Constraint(premises) : premises \in PremiseLists(len)}
    \cup {Rule(premises, conclusion) :
            premises \in PremiseLists(len), conclusion \in Conclusions}
\* the ground terms the facts matched by a chain are built from
Valuations == [{"X", "Y", "Z"} -> {c("a"), int(1)}]
\* one declaration is checked, compiled and, when it compiles, run to its
\* terminal on the facts of a valuation
CallCompile ==
  /\ call = NoCall
  /\ \E decl \in Declarations(MaxPremises), valuation \in Valuations :
       LET program == compileDecl("a", decl)
       IN call' = [fn |-> "compile", decl |-> decl, valuation |-> valuation,
                   errors |-> checkDecl(decl),
                   program |-> program,
                   head |-> IF program = Throw THEN [type |-> "rejected"]
                            ELSE runChain(program, 1, EmptySubst, valuation)]
  /\ UNCHANGED <<current, workingDbs, saturatedDbs, pc, lineage>>

\* A JavaScript string is modelled by the list of its characters.
\* the characters of the names and string values that are printed
chars(str) ==
  CASE str = "" -> <<>>
    [] str = "fa" -> <<"f", "a">>
    [] str = "a b" -> <<"a", " ", "b">>
    [] OTHER -> <<str>>
RECURSIVE join(_)
\* the string made of a list of characters
join(cs) == IF cs = <<>> THEN "" ELSE Head(cs) \o join(Tail(cs))
\* the decimal digits, the digit of v being DigitChars[v + 1]
DigitChars == <<"0", "1", "2", "3", "4", "5", "6", "7", "8", "9">>
RECURSIVE digitsOf(_)
\* `${value}` of a non-negative integer
digitsOf(v) ==
  IF v < 10 THEN <<DigitChars[v + 1]>>
  ELSE digitsOf(v \div 10) \o <<DigitChars[(v % 10) + 1]>>
RECURSIVE termToString(_)
RECURSIVE joinTerms(_, _)
\* args.map(termToString).join(' ') from argument i on
joinTerms(args, i) ==
  IF i > Len(args) THEN <<>>
  ELSE IF i = Len(args) THEN termToString(args[i])
  ELSE termToString(args[i]) \o <<" ">> \o joinTerms(args, i + 1)
\* termToString (terms.ts:89-104)
termToString(t) ==
  CASE t.type = "const" ->
         IF t.args = <<>> THEN chars(t.name)
         ELSE <<"(">> \o chars(t.name) \o <<" ">> \o joinTerms(t.args, 1) \o <<")">>
    [] t.type = "int" -> digitsOf(t.value)
    [] t.type = "string" -> <<"\"">> \o chars(t.value) \o <<"\"">>
    [] t.type = "triv" -> <<"(", ")">>
    [] OTHER -> chars(t.name)
\* the character classes of the regular expressions of parseTerm
DigitSet == Range(DigitChars)
UpperSet == {"X", "Y", "Z"}
LowerSet == {"a", "b", "f", "g", "x"}
RECURSIVE trimStart(_)
\* String.prototype.trimStart
trimStart(str) ==
  IF str # <<>> /\ str[1] = " " THEN trimStart(Tail(str)) ELSE str
\* s.slice(from), from counted from 0
slice(str, from) == SubSeq(str, from + 1, Len(str))
\* s.indexOf(ch), -1 when ch does not occur
indexOf(str, ch) ==
  IF \E i \in 1..Len(str) : str[i] = ch
  THEN (CHOOSE i \in 1..Len(str) : str[i] = ch /\ \A j \in 1..(i - 1) : str[j] # ch) - 1
  ELSE -1
\* the length of the match of /^[0-9a-zA-Z]+/, 0 when there is none
constMatch(str) ==
  LET alnum == DigitSet \cup UpperSet \cup LowerSet
  IN IF \E i \in 1..Len(str) : str[i] \notin alnum
     THEN (CHOOSE i \in 1..Len(str) :
             str[i] \notin alnum /\ \A j \in 1..(i - 1) : str[j] \in alnum) - 1
     ELSE Len(str)
RECURSIVE parseInt(_, _)
\* parseInt: the value of the leading digits of str, acc being the value so far
parseInt(str, acc) ==
  IF str = <<>> \/ str[1] \notin DigitSet THEN acc
  ELSE parseInt(Tail(str),
                10 * acc + ((CHOOSE d \in 1..10 : DigitChars[d] = str[1]) - 1))
RECURSIVE parseTerm(_)
RECURSIVE parseArgs(_, _, _)
\* the while loop of parseTerm (terms.ts:164-169): arguments are parsed as
\* long as parseTerm returns a term
parseArgs(name, args, rest) ==
  LET next == parseTerm(rest)
  IN IF next = Null THEN [data |-> const(name, args), rest |-> rest]
     ELSE IF next = Throw THEN Throw
     ELSE parseArgs(name, Append(args, next.data), next.rest)
\* parseTerm (terms.ts:119-174): [data, rest], Null, or Throw
parseTerm(str) ==
  IF str # <<>> /\ str[1] = "\""
  THEN LET end == indexOf(slice(str, 1), "\"")
       IN IF end = -1 THEN Throw
          ELSE [data |-> string(join(SubSeq(str, 2, end + 1))),
                rest |-> trimStart(slice(str, end + 2))]
  ELSE IF str # <<>> /\ str[1] = "("
  THEN IF Len(str) >= 2 /\ str[2] = ")"
       THEN [data |-> triv, rest |-> trimStart(slice(str, 2))]
       ELSE LET next == parseTerm(slice(str, 1))
            IN IF next = Null \/ next = Throw THEN Throw
               ELSE IF next.rest = <<>> \/ next.rest[1] # ")" THEN Throw
               ELSE [data |-> next.data, rest |-> trimStart(slice(next.rest, 1))]
  ELSE LET len == constMatch(str)
           matched == SubSeq(str, 1, len)
       IN IF len = 0 THEN Null
          ELSE IF matched[1] \in UpperSet
          THEN [data |-> var(join(matched)), rest |-> trimStart(slice(str, len))]
          ELSE IF matched[1] \in DigitSet
          THEN IF digitsOf(parseInt(matched, 0)) # matched THEN Throw
               ELSE [data |-> int(parseInt(matched, 0)),
                     rest |-> trimStart(slice(str, len))]
          ELSE parseArgs(join(matched), <<>>, trimStart(slice(str, len)))
\* parsePattern (terms.ts:176-185)
parsePattern(str) ==
  LET result == parseTerm(str)
  IN IF result = Null \/ result = Throw THEN Throw
     ELSE IF result.rest # <<>> THEN Throw
     ELSE result.data
\* the largest number of arguments of the printed constructors
MaxTermArgs == 2
\* the printed terms: leaves, constructors over leaves, and one constructor
\* over both
PrintLeaves ==
  {c("a"), c("fa"), X, triv, int(0), int(12), string("a b"), string("")}
PrintArgs ==
  PrintLeaves \cup {const("g", <<l>>) : l \in PrintLeaves}
    \cup {const("g", <<c("a"), X>>), const("g", <<X, c("a")>>)}
PrintTerms ==
  PrintArgs \cup
    UNION {{const("f", args) : args \in [1..k -> PrintArgs]} : k \in 1..MaxTermArgs}
\* one term is printed and the text is parsed
CallParse ==
  /\ call = NoCall
  /\ \E t \in PrintTerms :
       call' = [fn |-> "parsePattern", term |-> t, text |-> termToString(t),
                result |-> parsePattern(termToString(t))]
  /\ UNCHANGED <<current, workingDbs, saturatedDbs, pc, lineage>>

NextTerms ==
  \/ CallMatch
  \/ CallEqual
  \/ CallMatchFact
  \/ CallApply
  \/ CallStepTerminal
  \/ CallInsert
  \/ CallInequality
  \/ CallCompilePremises
  \/ CallCompile
  \/ CallParse

SpecTerms == InitTerms /\ [][NextTerms]_vars

(***************************************************************************)
(* Claims.                                                                 *)
(***************************************************************************)
\* true structural identity of two ground argument lists
functional(facts) ==
  \A i, j \in 1..Len(facts) :
    (i < j /\ facts[i].name = facts[j].name) => facts[i].args # facts[j].args

\* C1: in every database the driver reaches, the fact list never holds two
\* facts with the same relation name and structurally equal argument lists.
C1_FunctionalInvariant == \A db \in reached : functional(db.facts)

\* C2: in every database collected as saturated, for every rule position r,
\* every substitution s stored under r and every fact F, if matching r's
\* premise against F from s succeeds with s', then s' is stored under every
\* successor name of r.
saturationComplete(program, db) ==
  \A r \in 1..Len(program.rules) :
    \A k \in 1..Len(db.partialRules) :
      \A f \in 1..Len(db.facts) :
        LET rule == program.rules[r]
            s2 == matchFact(db.partialRules[k].args, rule.premise, db.facts[f])
        IN (db.partialRules[k].name = rule.name /\ s2 # Null)
             => \A nx \in Range(rule.nextName) :
                  PartialRule(nx, s2) \in Range(db.partialRules)
C2_SaturationComplete ==
  \A db \in Range(saturatedDbs) : saturationComplete(current, db)

\* the models the FIFO driver collects for a program, as fact sets
fifoModels(program) ==
  LET out == runDriver(program, <<program.db>>, <<>>)
  IN {factSet(out[i]) : i \in 1..Len(out)}

\* C3: whatever item each step dequeues, a run that ends with an empty stack
\* has collected the same set of saturated models (as fact sets) as the run
\* that always dequeues the head.
C3_QueueOrderInsensitive ==
  (pc = "done" /\ current # unboundExample) => models = fifoModels(current)

\* C4: the edge/path program ends with exactly one saturated database, whose
\* facts are the three edge facts and the six path facts, each once.
edgePathFacts ==
  {edge("a", "b"), edge("b", "c"), edge("c", "d"),
   path("a", "b"), path("b", "c"), path("c", "d"),
   path("a", "c"), path("b", "d"), path("a", "d")}
C4_EdgePath ==
  (pc = "done" /\ current = edgeExample)
    => /\ Len(saturatedDbs) = 1
       /\ factSet(saturatedDbs[1]) = edgePathFacts
       /\ Len(saturatedDbs[1].facts) = Cardinality(edgePathFacts)
C4_Witness ==
  pc = "done" /\ current = edgeExample /\ Len(saturatedDbs) = 1
    /\ path("a", "d") \in factSet(saturatedDbs[1])

things == {thing("a"), thing("b")}
coloring(x, y) == things \cup {color("a", x), color("b", y)}

\* C5: the choice program collects exactly four saturated databases, one for
\* each assignment of red/blue to a and b, each with one color fact per thing.
C5_Choice ==
  (pc = "done" /\ current = choiceExample)
    => /\ Len(saturatedDbs) = 4
       /\ models = {coloring(x, y) : x, y \in {"red", "blue"}}
       /\ \A i \in 1..Len(saturatedDbs) : Len(saturatedDbs[i].facts) = 4
C5_Witness ==
  pc = "done" /\ current = choiceExample
    /\ coloring("blue", "red") \in models /\ coloring("red", "red") \in models

\* C6: the choice program with the constraint that forbids color a = color b
\* collects exactly two saturated databases, {a red, b blue} and {a blue, b red}.
C6_ChoiceConstraint ==
  (pc = "done" /\ current = constraintExample)
    => /\ Len(saturatedDbs) = 2
       /\ models = {coloring("red", "blue"), coloring("blue", "red")}
C6_Witness ==
  pc = "done" /\ current = constraintExample /\ coloring("red", "blue") \in models

\* C7: the open-world program p = { false } collects exactly two saturated
\* databases, one that holds p = false and one that holds no fact of p.
pFalse == Fact("p", <<>>, <<c("false")>>)
C7_OpenWorld ==
  (pc = "done" /\ current = openExample)
    => /\ Len(saturatedDbs) = 2
       /\ \E i, j \in 1..2 :
            /\ i # j
            /\ pFalse \in factSet(saturatedDbs[i])
            /\ \A f \in factSet(saturatedDbs[j]) : f.name # "p"
C7_Witness ==
  pc = "done" /\ current = openExample /\ Len(saturatedDbs) = 2

\* C8: the program that asserts home celeste = uplands and home celeste =
\* doghouse collects no saturated database, whichever seed is dequeued first.
homeExamples == {homeExample("a1", "b1"), homeExample("b1", "a1")}
C8_Inconsistency ==
  (pc = "done" /\ current \in homeExamples) => Len(saturatedDbs) = 0
C8_Witness ==
  pc = "done" /\ current = homeExample("b1", "a1") /\ Len(saturatedDbs) = 0

\* C9: if match(s, p, d) returns a substitution s', then apply(s', p) does not
\* fail and returns a term identical to d.
C9_MatchSound ==
  (call.fn = "match" /\ call.result # Null)
    => /\ apply(call.result, call.pattern) # Throw
       /\ apply(call.result, call.pattern) = call.data
C9_Witness ==
  /\ call.fn = "match"
  /\ call.result # Null
  /\ call.pattern = const("g", <<X, Y>>)
  /\ DOMAIN call.substitution = {"X"}
  /\ DOMAIN call.result = {"X", "Y"}

\* C10: for every database the driver reaches and every fact f in its fact
\* list, evaluateFactAgainstDatabase(db, f) returns 'redundant' (and so leaves
\* facts, partial rules and queue as they are).
C10_ReinsertRedundant ==
  \A db \in reached :
    \A f \in Range(db.facts) : evaluateFactAgainstDatabase(db, f).type = "redundant"

\* true structural identity of two stored prefixes: same name, same variables,
\* identical data
prefixUnique(partialRules) ==
  \A i, j \in 1..Len(partialRules) :
    (i < j /\ partialRules[i].name = partialRules[j].name)
      => partialRules[i].args # partialRules[j].args

\* C11: in every database the driver reaches, partialRules never holds two
\* entries with the same position name whose substitutions bind the same
\* variables to structurally equal data.
C11_PrefixUnique == \A db \in reached : prefixUnique(db.partialRules)

\* the last iteration called step: its database, the item it dequeued and the
\* database step worked on (the input without that item)
stepInput == call.stack[1]
steppedItem == stepInput.queue[call.index]
steppedRest == [stepInput EXCEPT !.queue = RemoveAt(stepInput.queue, call.index)]
steppedTerminal ==
  /\ call.fn = "step"
  /\ steppedItem.type = "PartialRule"
  /\ steppedItem.name \in DOMAIN current.conclusions
steppedConclusion == current.conclusions[steppedItem.name]
\* every alternative of the dequeued terminal is inconsistent with the database
allInconsistent ==
  LET results == terminalResults(steppedConclusion, steppedRest, steppedItem)
  IN \A i \in 1..Len(results) : results[i].type = "inconsistent"
\* the driver dropped the stepped database and collected nothing
pruned == workingDbs = Tail(call.stack) /\ saturatedDbs = call.saturated

\* C12: when step dequeues a terminal prefix whose conclusion is exhaustive and
\* every alternative's insertion is inconsistent, step returns the empty list
\* and the driver prunes that database.
C12_ExhaustedChoice ==
  (/\ steppedTerminal
   /\ steppedConclusion.type = "NewFact"
   /\ steppedConclusion.exhaustive
   /\ allInconsistent)
    => call.result = Returned(<<>>) /\ pruned
C12_Witness ==
  /\ steppedTerminal
  /\ current = homeExample("a1", "b1")
  /\ steppedItem.name = "b1"
  /\ allInconsistent
  /\ Len(stepInput.facts) = 1

\* C13: when step dequeues a terminal prefix whose conclusion is not exhaustive
\* and every alternative's insertion is inconsistent, step returns exactly one
\* database: the input database with only the dequeued item removed from the
\* queue.
C13_OpenNoProgress ==
  (/\ steppedTerminal
   /\ steppedConclusion.type = "NewFact"
   /\ ~steppedConclusion.exhaustive
   /\ allInconsistent)
    => call.result = Returned(<<steppedRest>>)
C13_Witness ==
  /\ steppedTerminal
  /\ current = clashExample
  /\ steppedItem.name = "b1"
  /\ allInconsistent
  /\ workingDbs = <<steppedRest>>

\* C14: when step dequeues a prefix whose name is the terminal of a constraint
\* (a Contradiction conclusion), step returns the empty list and the driver
\* removes that database without adding it to the saturated list.
C14_ConstraintTerminal ==
  (steppedTerminal /\ steppedConclusion.type = "Contradiction")
    => call.result = Returned(<<>>) /\ pruned
C14_Witness ==
  /\ steppedTerminal
  /\ current = constraintExample
  /\ steppedItem = PartialRule("d3", ("C" :> c("red")))
  /\ Len(workingDbs) = Len(call.stack) - 1

\* how often x occurs in a list
count(seq, x) == Cardinality({i \in 1..Len(seq) : seq[i] = x})
\* the terminals of the rules without premises: the conclusions no rule leads to
zeroPremise(program) ==
  {t \in DOMAIN program.conclusions :
     \A r \in 1..Len(program.rules) : t \notin Range(program.rules[r].nextName)}
\* the seed prefix of every rule without premises is once in the initial queue
seededOnce ==
  \A t \in zeroPremise(current) : count(current.db.queue, seed(t)) = 1
\* no step enqueues the seed prefix of a rule without premises
neverEnqueued ==
  (call.fn = "step" /\ call.result # Throw)
    => \A t \in zeroPremise(current) :
         \A i \in 1..Len(call.result.dbs) :
           count(call.result.dbs[i].queue, seed(t)) <= count(steppedRest.queue, seed(t))
\* the paths that have ended: collected as saturated, or pruned
leaves == Range(lineage.saturated) \cup Range(lineage.pruned)

\* C15 as claimed: the seed prefix of a rule without premises is once in the
\* initial queue, no step enqueues it again, and its terminal is evaluated by
\* exactly one step on every root-to-leaf path of the search tree.
C15_FiredOncePerPath ==
  /\ seededOnce
  /\ neverEnqueued
  /\ \A t \in zeroPremise(current) : \A place \in leaves : place.fired[t] = 1

\* C15 (amended): the seed prefix of a rule without premises is once in the
\* initial queue, no step enqueues it again, and its terminal is evaluated by
\* at most one step on every path of the search tree and by exactly one step on
\* every path that ends in a saturated database.
C15_FiredOncePerModel ==
  /\ seededOnce
  /\ neverEnqueued
  /\ \A t \in zeroPremise(current) :
       /\ \A place \in leaves \cup Range(lineage.working) : place.fired[t] <= 1
       /\ \A place \in Range(lineage.saturated) : place.fired[t] = 1
C15_Witness ==
  /\ pc = "done"
  /\ current = pqExample
  /\ zeroPremise(current) = {"b1", "d1"}
  /\ Len(lineage.saturated) = 3
  /\ Len(lineage.pruned) > 0
  /\ \A place \in leaves : place.fired["b1"] = 1 /\ place.fired["d1"] = 1

\* C16: the driver never calls step on a database whose queue is empty: every
\* iteration that calls step found at least one item in the top database's
\* queue, and every iteration that found none collected the database instead.
C16_NeverStepsEmpty ==
  /\ call.fn = "step" => Len(stepInput.queue) >= 1
  /\ call.fn = "pop" => Len(call.stack[1].queue) = 0
C16_Witness ==
  /\ call.fn = "step"
  /\ Len(stepInput.queue) = 1
  /\ call.result # Throw
  /\ Len(workingDbs) > 0
  /\ workingDbs[1].queue = <<>>

\* p comes before q in depth-first, first-alternative-first order
lexLess(p, q) ==
  \E i \in 1..Len(p) :
    /\ i <= Len(q)
    /\ p[i] < q[i]
    /\ \A j \in 1..(i - 1) : p[j] = q[j]
inOrder(places) ==
  \A i, j \in 1..Len(places) : i < j => lexLess(places[i].path, places[j].path)

\* C17: after a step that returns k >= 2 successors b1..bk, b1..bk are the top
\* of the working stack in that order, above the databases that were below the
\* branching database; the stack is always in depth-first order from the top,
\* so that the database stepped next comes before every other open database;
\* and the saturated databases are collected in depth-first, alternative
\* order, each before every database still open.
C17_DepthFirst ==
  /\ (call.fn = "step" /\ call.result # Throw /\ Len(call.result.dbs) >= 2)
       => workingDbs = call.result.dbs \o Tail(call.stack)
  /\ Len(lineage.working) = Len(workingDbs)
  /\ inOrder(lineage.working)
  /\ inOrder(lineage.saturated)
  /\ \A s \in leaves : \A w \in Range(lineage.working) : lexLess(s.path, w.path)
C17_Witness ==
  /\ pc = "done"
  /\ current = choiceExample
  /\ [i \in 1..4 |-> lineage.saturated[i].path] = <<<<1, 1>>, <<1, 2>>, <<2, 1>>, <<2, 2>>>>
  /\ [i \in 1..4 |-> factSet(saturatedDbs[i])]
       = <<coloring("red", "red"), coloring("red", "blue"),
           coloring("blue", "red"), coloring("blue", "blue")>>

\* the databases on the stack and the collected ones with their places
held ==
  {<<workingDbs[i], lineage.working[i]>> : i \in 1..Len(workingDbs)}
    \cup {<<saturatedDbs[i], lineage.saturated[i]>> : i \in 1..Len(saturatedDbs)}

\* C18: step does not change the facts, partial rules, uninteresting set or
\* queue of the database it is given; a step leaves every other database on
\* the stack and every collected database as it was; and so every database on
\* the stack or collected reads exactly as the step that returned it made it,
\* whatever steps were applied to its siblings since.
C18_NoSharedMutableState ==
  /\ call.fn = "step" => call.inputAfter = stepInput
  /\ (call.fn = "step" /\ call.result # Throw)
       => /\ workingDbs = call.result.dbs \o Tail(call.stack)
          /\ saturatedDbs = call.saturated
  /\ \A h \in held : h[1] = h[2].born
\* a sibling that still holds the partialRules array its branching step gave
\* to both, after a later step added a prefix to the database on top
C18_Witness ==
  /\ call.fn = "step"
  /\ current = constraintExample
  /\ Len(call.result.dbs) = 1
  /\ Len(call.result.dbs[1].partialRules) > Len(stepInput.partialRules)
  /\ \E i \in 2..Len(workingDbs) :
       /\ lineage.working[i].refs["partialRules"] = call.refs["partialRules"]
       /\ workingDbs[i] = call.stack[i]

\* C19: for all ground terms t and s, equal(t, s) is true exactly when t and s
\* have the same shape with the same constructor names, integer values and
\* string values at every position.
C19_EqualStructural ==
  call.fn = "equal" => (call.result <=> call.t = call.s)

\* the patterns of the proposition and the terms of the fact of the last call
\* of matchFact, arguments first
calledPatterns == call.proposition.args \o call.proposition.values
calledDatas == call.fact.args \o call.fact.values
calledVars == {calledPatterns[i].name :
                 i \in {k \in 1..Len(calledPatterns) : calledPatterns[k].type = "var"}}
\* P and F differ in relation name, number of arguments or number of values
shapeDiffers ==
  \/ call.proposition.name # call.fact.name
  \/ Len(call.proposition.args) # Len(call.fact.args)
  \/ Len(call.proposition.values) # Len(call.fact.values)
\* a variable of P bound in s, or bound earlier in the same match, meets a
\* different ground term
variableClash ==
  \E i \in 1..Len(calledPatterns) :
    /\ calledPatterns[i].type = "var"
    /\ \/ /\ calledPatterns[i].name \in DOMAIN call.substitution
          /\ call.substitution[calledPatterns[i].name] # calledDatas[i]
       \/ \E j \in 1..(i - 1) :
            calledPatterns[j] = calledPatterns[i] /\ calledDatas[j] # calledDatas[i]
\* a ground argument or value of P meets a different term
groundClash ==
  \E i \in 1..Len(calledPatterns) :
    calledPatterns[i].type # "var" /\ calledPatterns[i] # calledDatas[i]
\* the result keeps every binding of s and adds exactly the variables of P
\* that s did not bind
leastExtension ==
  /\ DOMAIN call.result = DOMAIN call.substitution \cup calledVars
  /\ \A v \in DOMAIN call.substitution : call.result[v] = call.substitution[v]

C21_NoDuplicateModels ==
  \A i, j \in 1..Len(saturatedDbs) :
    i < j => factSet(saturatedDbs[i]) # factSet(saturatedDbs[j])

\* the ground facts of the alternatives of a conclusion under a substitution
alternatives(conclusion, args) ==
  {applyProposition(args, conclusion.mutuallyExclusiveConclusions[i]) :
     i \in 1..Len(conclusion.mutuallyExclusiveConclusions)}
\* an exhaustive head is satisfied in db under the substitution of item
headSatisfied(conclusion, db, item) ==
  LET heads == alternatives(conclusion, item.args)
      present == heads \cap factSet(db)
  IN /\ present # {}
     /\ (\A f, g \in heads : f.name = g.name /\ f.args = g.args)
          => Cardinality(present) = 1

\* C22: in every saturated database, for every substitution stored at the
\* terminal of an exhaustive conclusion, at least one alternative's ground fact
\* is in the fact list, and exactly one when the alternatives share relation
\* name and arguments.
C22_ExhaustiveHeadsSatisfied ==
  \A db \in Range(saturatedDbs) :
    \A k \in 1..Len(db.partialRules) :
      LET item == db.partialRules[k]
      IN (/\ item.name \in DOMAIN current.conclusions
          /\ current.conclusions[item.name].type = "NewFact"
          /\ current.conclusions[item.name].exhaustive)
           => headSatisfied(current.conclusions[item.name], db, item)

\* the insertions of the alternatives of the dequeued terminal, in declared order
steppedInsertions ==
  LET props == steppedConclusion.mutuallyExclusiveConclusions
  IN [i \in 1..Len(props) |->
        evaluateFactAgainstDatabase(steppedRest,
                                    applyProposition(steppedItem.args, props[i]))]
\* the database an extending alternative contributes
extendedBy(i) ==
  LET fact == applyProposition(steppedItem.args,
                               steppedConclusion.mutuallyExclusiveConclusions[i])
  IN [steppedRest EXCEPT !.facts = Append(@, fact), !.queue = Append(@, fact)]
\* the alternatives whose insertion extends, in declared order
extending ==
  SelectSeq([i \in 1..Len(steppedInsertions) |-> i],
            LAMBDA i : steppedInsertions[i].type = "extend")
noProgressKept ==
  \/ ~steppedConclusion.exhaustive
  \/ \E i \in 1..Len(steppedInsertions) : steppedInsertions[i].type = "redundant"

\* C23: a step on a terminal prefix returns one database per alternative whose
\* insertion is 'extend', in declared order (an inconsistent alternative drops
\* only itself), followed by the no-progress database (the input with the item
\* dequeued) exactly once, last, precisely when the conclusion is non-exhaustive
\* or at least one alternative was redundant.
C23_TerminalResultOrder ==
  (/\ steppedTerminal
   /\ steppedConclusion.type = "NewFact"
   /\ call.result.type = "ok")
    => LET dbs == call.result.dbs
           k == Len(extending)
       IN /\ Len(dbs) = k + (IF noProgressKept THEN 1 ELSE 0)
          /\ \A i \in 1..k : dbs[i] = extendedBy(extending[i])
          /\ noProgressKept => dbs[k + 1] = steppedRest
          /\ count(dbs, steppedRest) = (IF noProgressKept THEN 1 ELSE 0)
C23_Witness ==
  /\ steppedTerminal
  /\ steppedConclusion.type = "NewFact"
  /\ call.result.type = "ok"
  /\ Len(extending) >= 2
  /\ ~noProgressKept
  /\ Len(call.result.dbs) = Len(extending)

\* the prefix-driven reading of the fact case: every stored prefix of a rule
\* position is advanced by matchFact from its own substitution
prefixJoin(rules, db, fact) ==
  ConcatAll([r \in 1..Len(rules) |->
    ConcatAll([k \in 1..Len(db.partialRules) |->
      LET stored == db.partialRules[k]
          matched == matchFact(stored.args, rules[r].premise, fact)
      IN IF stored.name = rules[r].name /\ matched # Null
         THEN nextItems(rules[r], matched)
         ELSE <<>>])])
steppedFact == call.fn = "step" /\ steppedItem.type = "Fact"

\* C24: when step dequeues a fact F, for every rule position r and every
\* substitution s stored under r, the fact case produces successor prefixes
\* exactly when matchFact(s, r.premise, F) succeeds, and each carries that match
\* result as its substitution, for all ground data.
C24_JoinsAgree ==
  steppedFact
    => factCase(current.rules, steppedRest, steppedItem)
         = prefixJoin(current.rules, steppedRest, steppedItem)
C24_Witness ==
  /\ steppedFact
  /\ \E r \in 1..Len(current.rules) :
       /\ current.rules[r].shared # <<>>
       /\ current.rules[r].independent # <<>>
       /\ \E k \in 1..Len(steppedRest.partialRules) :
            /\ steppedRest.partialRules[k].name = current.rules[r].name
            /\ matchFact(steppedRest.partialRules[k].args, current.rules[r].premise,
                         steppedItem) # Null

RECURSIVE isSubsequence(_, _)
\* a is b with some elements left out, the order kept
isSubsequence(a, b) ==
  IF a = <<>> THEN TRUE
  ELSE IF b = <<>> THEN FALSE
  ELSE IF Head(a) = Head(b) THEN isSubsequence(Tail(a), Tail(b))
  ELSE isSubsequence(a, Tail(b))
\* the items the step generated, in the order it generated them
generated ==
  IF steppedTerminal
  THEN IF steppedConclusion.type = "NewFact"
       THEN [i \in 1..Len(steppedConclusion.mutuallyExclusiveConclusions) |->
               applyProposition(steppedItem.args,
                                steppedConclusion.mutuallyExclusiveConclusions[i])]
       ELSE <<>>
  ELSE IF steppedItem.type = "Fact"
       THEN factCase(current.rules, steppedRest, steppedItem)
       ELSE partialRuleCase(current.rules, steppedRest, steppedItem)

\* C25: every step removes exactly one item from the queue, the head, and every
\* item it enqueues is appended behind all items already queued, in the order
\* the step generated them; so within one lineage items are dequeued in the
\* order they were enqueued.
C25_Fifo ==
  (call.fn = "step" /\ call.result.type = "ok")
    => /\ call.index = 1
       /\ \A i \in 1..Len(call.result.dbs) :
            LET queue == call.result.dbs[i].queue
                kept == Len(stepInput.queue) - 1
            IN /\ Len(queue) >= kept
               /\ SubSeq(queue, 1, kept) = Tail(stepInput.queue)
               /\ isSubsequence(SubSeq(queue, kept + 1, Len(queue)), generated)
C25_Witness ==
  /\ call.fn = "step"
  /\ call.result.type = "ok"
  /\ Len(stepInput.queue) >= 3
  /\ \E i \in 1..Len(call.result.dbs) :
       Len(call.result.dbs[i].queue) >= Len(stepInput.queue) + 1

MaxStack == 4
\* the database depth places above the bottom of the stack has queued items
queuedAt(depth) ==
  /\ pc = "loop"
  /\ Len(workingDbs) >= depth
  /\ workingDbs[Len(workingDbs) + 1 - depth].queue # <<>>

\* in the run of loopExample every step on a fact n 1 or q 1, or on a prefix of
\* a2 or c2, enqueues one item for the one it dequeues, however many rounds
\* have passed: the queue of that database is never drained
loopRefills ==
  (/\ current = loopExample
   /\ call.fn = "step"
   /\ steppedItem.name \in {"n", "q", "a2", "c2"})
    => /\ call.result.type = "ok"
       /\ Len(call.result.dbs) = 1
       /\ Len(call.result.dbs[1].queue) = Len(stepInput.queue)

paths(places) == [i \in 1..Len(places) |-> places[i].path]
distinct(seq) == \A i, j \in 1..Len(seq) : i < j => seq[i] # seq[j]

\* C27: a database is appended to the saturated list only when it is the top of
\* the working stack and its queue is empty; each is appended exactly once and
\* removed from the stack in the same iteration; and a database for which step
\* returned the empty list never appears in the saturated list.
C27_CollectedOnlyWhenDrained ==
  /\ call.fn = "pop"
       => /\ call.stack[1].queue = <<>>
          /\ saturatedDbs = Append(call.saturated, call.stack[1])
          /\ workingDbs = Tail(call.stack)
  /\ call.fn = "step" => Len(saturatedDbs) = Len(call.saturated)
  /\ call.fn = "none" => saturatedDbs = <<>>
  /\ Len(lineage.saturated) = Len(saturatedDbs)
  /\ distinct(paths(lineage.saturated))
  /\ Range(paths(lineage.saturated)) \cap Range(paths(lineage.working)) = {}
  /\ Range(paths(lineage.saturated)) \cap Range(paths(lineage.pruned)) = {}
C27_Witness ==
  /\ call.fn = "pop"
  /\ Len(saturatedDbs) >= 2
  /\ Len(workingDbs) >= 1
  /\ lineage.pruned # <<>>

\* the last iteration called step and step returned the empty list
stepFailed == call.fn = "step" /\ call.result = Returned(<<>>)

\* C28: when step returns the empty list the driver removes only the database
\* it stepped: every other database on the stack and every saturated database
\* is unchanged, and the run continues with the next database on the stack.
C28_PruningLocal ==
  stepFailed
    => /\ workingDbs = Tail(call.stack)
       /\ saturatedDbs = call.saturated
       /\ pc \in {"loop", "done"}
       /\ pc = "done" => workingDbs = <<>>
C28_Witness ==
  /\ stepFailed
  /\ Len(workingDbs) >= 2
  /\ Len(saturatedDbs) >= 1
  /\ pc = "loop"

RECURSIVE freeVars(_)
\* the variables that occur in a pattern
freeVars(pattern) ==
  CASE pattern.type = "var" -> {pattern.name}
    [] pattern.type = "const" ->
         UNION {freeVars(pattern.args[i]) : i \in 1..Len(pattern.args)}
    [] OTHER -> {}
\* the variables of the head of the last terminal step
headVars ==
  UNION {freeVars(q) : q \in Range(call.proposition.args \o call.proposition.values)}

\* C29: apply(s, p) raises when p contains a variable that s does not bind, and
\* a step on a terminal prefix whose head references such a variable raises
\* that error instead of returning a successor list.
C29_UnboundHeadFatal ==
  /\ (call.fn = "apply" /\ ~(freeVars(call.pattern) \subseteq DOMAIN call.substitution))
       => call.result = Throw
  /\ (call.fn = "terminal" /\ ~(headVars \subseteq DOMAIN call.substitution))
       => call.result = Throw
C29_Witness ==
  /\ call.fn = "terminal"
  /\ "X" \in headVars /\ "X" \in DOMAIN call.substitution
  /\ "Y" \in headVars /\ "Y" \notin DOMAIN call.substitution
  /\ call.result = Throw

\* the candidate of the last insertion is in the uninteresting set and no fact
\* of the fact list has its relation name and arguments
dullOnly ==
  /\ call.fn = "insert"
  /\ call.fact \in Range(call.db.uninteresting)
  /\ \A g \in Range(call.db.facts) :
       ~(g.name = call.fact.name /\ g.args = call.fact.args)

\* C30: if a fact with the same name, arguments and values as the candidate is
\* in the uninteresting set, and no fact with that key is in the fact list, the
\* insertion returns 'redundant', the candidate is neither added to the facts
\* nor enqueued, and the terminal step counts it as a redundant possibility.
C30_UninterestingSuppresses ==
  dullOnly
    => /\ call.result = [type |-> "redundant"]
       /\ call.stepped = Returned(<<call.db>>)
C30_Witness ==
  /\ dullOnly
  /\ call.db.facts # <<>>
  /\ Len(call.fact.args) = 2
  /\ call.result = [type |-> "redundant"]
  /\ call.stepped = Returned(<<call.db>>)

C31_Witness ==
  /\ call.fn = "inequality"
  /\ call.a = X /\ call.b = const("f", <<Y>>)
  /\ Len(call.next) = 2
  /\ call.result = <<PartialRule("r1", call.substitution),
                     PartialRule("q1", call.substitution)>>

\* the variables of a premise given to the compiler
varsOfPremise(premise) ==
  IF premise.type = "Inequality" THEN freeVars(premise.a) \cup freeVars(premise.b)
  ELSE UNION {freeVars(premise.args[k]) : k \in 1..Len(premise.args)}
\* the variables of the Proposition premises before position i (counted from 0)
earlierVars(premises, i) ==
  UNION {varsOfPremise(premises[j]) :
           j \in {m \in 1..i : premises[m].type = "Proposition"}}

\* C32: for every premise list compilePremises accepts, the shared list of each
\* position holds only variables of an earlier Proposition premise, the shared
\* list of an inequality position holds every variable of the inequality, and
\* the chain has one position per premise, named rule0..rule(n-1), position i
\* pointing to position i+1, with the terminal named rule n.
C32_CompiledChain ==
  (call.fn = "compilePremises" /\ call.result # Throw) =>
    LET chain == call.result
        size == Len(call.premises)
    IN /\ Len(chain.rules) = size
       /\ chain.seed = call.rule \o "0"
       /\ chain.conclusion = call.rule \o ToString(size)
       /\ \A i \in 0..(size - 1) :
            LET position == chain.rules[i + 1][2]
            IN /\ chain.rules[i + 1][1] = call.rule \o ToString(i)
               /\ position.next = <<call.rule \o ToString(i + 1)>>
               /\ position.premise = call.premises[i + 1]
               /\ Range(position.shared) \subseteq earlierVars(call.premises, i)
               /\ position.premise.type = "Inequality"
                    => varsOfPremise(position.premise) \subseteq Range(position.shared)
C32_Witness ==
  /\ call.fn = "compilePremises"
  /\ call.result # Throw
  /\ Len(call.premises) = 3
  /\ call.premises[2].type = "Proposition"
  /\ call.result.rules[2][2].shared = <<"Y">>
  /\ call.premises[3] = Inequality(X, Y)
  /\ call.result.rules[3][2].shared = <<"X", "Y">>
\* a declaration breaks the static rule: the head of a rule uses a variable of
\* no Proposition premise, or an inequality uses a variable of no earlier one
unboundUse(decl) ==
  \/ /\ decl.type = "Rule"
     /\ \E q \in Range(decl.conclusion.args \o decl.conclusion.values) :
          ~(freeVars(q) \subseteq earlierVars(decl.premises, Len(decl.premises)))
  \/ \E i \in 1..Len(decl.premises) :
       /\ decl.premises[i].type = "Inequality"
       /\ ~(varsOfPremise(decl.premises[i]) \subseteq earlierVars(decl.premises, i - 1))

\* C33: checkDecl returns a non-empty error list, and compile throws, exactly
\* when the head of a rule uses a variable that no premise binds or an
\* inequality premise uses a variable that no earlier premise binds; a
\* declaration that passes never has its head applied to a substitution that
\* lacks one of the head's variables.
C33_StaticRejection ==
  call.fn = "compile" =>
    /\ (call.errors # <<>>) <=> unboundUse(call.decl)
    /\ (call.program = Throw) <=> unboundUse(call.decl)
    /\ ~unboundUse(call.decl) => call.head # Throw
C33_Witness ==
  /\ call.fn = "compile"
  /\ call.decl.type = "Rule"
  /\ Len(call.decl.premises) = 3
  /\ \E i \in 1..3 : call.decl.premises[i].type = "Inequality"
  /\ call.errors = <<>>
  /\ call.program # Throw
  /\ call.head.type = "Fact"
  /\ call.decl.conclusion.values = <<Z>>
RECURSIVE nullaryBeforeLast(_)
\* some constructor of t has a nullary constructor as an argument other than
\* its last
nullaryBeforeLast(t) ==
  /\ t.type = "const"
  /\ \/ \E i \in 1..(Len(t.args) - 1) : t.args[i].type = "const" /\ t.args[i].args = <<>>
     \/ \E i \in 1..Len(t.args) : nullaryBeforeLast(t.args[i])

\* C34: for every pattern t built from constructors, variables, triv,
\* non-negative integers and strings without a double quote,
\* parsePattern(termToString(t)) is structurally identical to t, also when a
\* constructor has a nullary constructor among its arguments before the last.
C34_RoundTrip ==
  call.fn = "parsePattern" => call.result = call.term
\* the round trip of the patterns with no nullary constructor before a last
\* argument
roundTripElsewhere ==
  (call.fn = "parsePattern" /\ ~nullaryBeforeLast(call.term)) => call.result = call.term
\* the programs of the two path rules
EdgePrograms == {edgeExample, cycleExample}
\* the nine paths of the cycle a b c
cyclePaths == {path(x, y) : x \in {"a", "b", "c"}, y \in {"a", "b", "c"}}

\* C35: for the two path rules and seed edge facts over constants, cycles
\* included, the driver loop reaches an empty stack after finitely many steps,
\* no fact and no prefix being stored or enqueued twice.
C35_CyclicTerminates ==
  /\ (current \in EdgePrograms) ~> (pc = "done" /\ workingDbs = <<>>)
  /\ [](current \in EdgePrograms
          => \A i \in 1..Len(workingDbs) :
               /\ distinct(workingDbs[i].facts)
               /\ distinct(workingDbs[i].partialRules)
               /\ distinct(workingDbs[i].queue))
C35_Witness ==
  /\ current = cycleExample
  /\ pc = "done"
  /\ workingDbs = <<>>
  /\ Len(saturatedDbs) = 1
  /\ cyclePaths \subseteq factSet(saturatedDbs[1])
  /\ Len(saturatedDbs[1].facts) = 12
\* C36: every database step returns holds every fact and every stored prefix
\* of the database it was given, in the same relative order; a step on a fact
\* item or on a non-terminal prefix returns exactly one database and adds no
\* fact, and a step on a terminal prefix adds no prefix.
C36_MonotoneGrowth ==
  call.fn = "step" =>
    /\ call.result # Throw =>
         \A k \in 1..Len(call.result.dbs) :
           /\ isSubsequence(stepInput.facts, call.result.dbs[k].facts)
           /\ isSubsequence(stepInput.partialRules, call.result.dbs[k].partialRules)
    /\ ~steppedTerminal =>
         /\ call.result # Throw
         /\ Len(call.result.dbs) = 1
         /\ call.result.dbs[1].facts = stepInput.facts
    /\ (steppedTerminal /\ call.result # Throw) =>
         \A k \in 1..Len(call.result.dbs) :
           call.result.dbs[k].partialRules = stepInput.partialRules
C36_Witness ==
  /\ call.fn = "step"
  /\ steppedTerminal
  /\ Len(stepInput.facts) >= 2
  /\ Len(call.result.dbs) >= 2
  /\ Len(call.result.dbs[1].facts) > Len(stepInput.facts)
\* the seed's queue holds only stored seed prefixes
seedQueueStored ==
  \A i \in 1..Len(current.db.queue) :
    /\ current.db.queue[i].type = "PartialRule"
    /\ current.db.queue[i] \in Range(current.db.partialRules)
\* the facts and prefixes a database holds beyond those of the seed, each
\* stored and enqueued by one step of its lineage
added(db) ==
  SubSeq(db.facts, Len(current.db.facts) + 1, Len(db.facts))
    \o SubSeq(db.partialRules, Len(current.db.partialRules) + 1, Len(db.partialRules))
\* every item enqueued on the lineage of a database
enqueued(db) == current.db.queue \o added(db)
\* the queue of a database holds stored items only
queueStored(db) ==
  \A i \in 1..Len(db.queue) :
    IF db.queue[i].type = "Fact" THEN db.queue[i] \in Range(db.facts)
    ELSE db.queue[i] \in Range(db.partialRules)
\* the databases of the run
reachedDbs == Range(workingDbs) \cup Range(saturatedDbs)

\* C37: in every database reachable from a seed whose queue holds only its
\* stored seed prefixes, every fact in the queue is in the fact list and every
\* prefix in the queue is in partialRules, and each fact or prefix is enqueued
\* at most once during a lineage: every step takes one item from the queue and
\* enqueues exactly what it stores, so the steps on a lineage number at most
\* the seed queue items plus the facts and prefixes added.
C37_QueueItemsStored ==
  seedQueueStored =>
    /\ \A db \in reachedDbs :
         /\ queueStored(db)
         /\ distinct(enqueued(db))
         /\ Len(db.queue) <= Len(enqueued(db))
    /\ (call.fn = "step" /\ call.result # Throw) =>
         \A k \in 1..Len(call.result.dbs) :
           Len(call.result.dbs[k].queue) + Len(added(stepInput)) + 1
             = Len(stepInput.queue) + Len(added(call.result.dbs[k]))
\* the statement of C37 in the runs of the programs without int or string data
queueItemsStoredOnConstants ==
  current \in ConstPrograms => C37_QueueItemsStored
====
